---- MODULE Spec2Model ----
(***************************************************************************)
(* Model of the ADF tree-editing engine of mcp-atlassian: the document     *)
(* model (adf/document.py), the finder (adf/finder.py), the validator      *)
(* (adf/validator.py), the structure-preserving writer (adf/writer.py) and *)
(* the Confluence client's ADF write-back (confluence/client.py).          *)
(*                                                                         *)
(* A node is a record [type, text, marks, attrs, content, content_field].  *)
(* A text is a sequence of characters (<<>> stands for None), attrs is a   *)
(* set of <<key, value>> pairs with at most one pair per key, marks is a   *)
(* sequence of [type, attrs] records, content is a sequence of nodes and   *)
(* content_field tells whether the content field was given.  Paths are     *)
(* sequences of 0-based child indices, as in the source.                   *)
(***************************************************************************)
EXTENDS Integers, Sequences, FiniteSets, TLC

VARIABLES
    server,     \* the page held by the Confluence host: [version, content, log]
    sess,       \* sess[s]: one call of update_page_preserving_formatting
    backup_documents, \* ADFWriter.backup_documents of session s's writer
    now,        \* int(time.time()), the clock the backup ids are made from
    doc,        \* a stand-alone ADFDocument driven by direct calls: _model.content
    derived,    \* its _raw_data and _element_map
    last,       \* the last direct call on doc and what it returned
    finder,     \* an ADFFinder kept across searches: its search_cache
    validator,  \* an ADFValidator kept across validations
    cloned      \* the document clone() returned: its content and derived data

vars == <<server, sess, backup_documents, now, doc, derived, last, finder, validator,
          cloned>>

------------------------------------------------------------------------------
(* Bounds of the model.                                                    *)

MaxRetries == 1      \* largest max_retries a caller passes
MaxVersion == 2      \* page versions the host gets to
MaxClock == 1        \* seconds the clock advances over
MaxDirectCalls == 2  \* direct calls made on the stand-alone document
MaxPath == 2         \* longest path a direct call passes
MaxIndex == 1        \* largest index in such a path

Sessions == {1, 2}

------------------------------------------------------------------------------
(* Texts: str.lower and the substring test of the finder.                  *)

Lower(c) == CASE c = "A" -> "a" [] c = "B" -> "b" [] OTHER -> c

LowerStr(s) == [i \in 1..Len(s) |-> Lower(s[i])]

IsSubstr(needle, hay) ==
    \E i \in 0..(Len(hay) - Len(needle)) : SubSeq(hay, i + 1, i + Len(needle)) = needle

------------------------------------------------------------------------------
(* Nodes.                                                                  *)

NODE_TYPES == {"blockquote", "bulletList", "codeBlock", "heading", "mediaGroup",
               "mediaSingle", "orderedList", "panel", "paragraph", "rule", "table",
               "date", "emoji", "hardBreak", "inlineCard", "mention", "status",
               "text", "doc", "listItem", "tableRow", "tableCell", "tableHeader",
               "extension", "bodiedExtension", "inlineExtension"}

MARK_TYPES == {"code", "em", "link", "strike", "strong", "subsup", "textColor",
               "backgroundColor", "underline", "alignment"}

MAX_DEPTH == 20

\* A node, as a dict and as an ADFNodeModel.  content_field tells what the
\* "content" key held when the node was given: "list" (a list, the field is
\* set), "unset" (no such key: the field holds its default, an empty list
\* of its own, and is not among the fields set) or "null" (None).  content
\* is the live child list, empty for None.
Node(t, txt, mks, at, ch) ==
    [type |-> t, text |-> txt, marks |-> mks, attrs |-> at, content |-> ch,
     content_field |-> IF ch = <<>> THEN "unset" ELSE "list"]

Mark(t) == [type |-> t, attrs |-> {}]

Text(txt, mks) == Node("text", txt, mks, {}, <<>>)

Para(ch) == Node("paragraph", <<>>, <<>>, {}, ch)

\* Attribute values are strings; a heading level is the numeral of the integer.
Heading(level, ch) == Node("heading", <<>>, <<>>, {<<"level", level>>}, ch)

\* What a lookup returns for a path that does not resolve (Python's None).
None == Node("None", <<>>, <<>>, {}, <<>>)

AttrKeys(attrs) == {p[1] : p \in attrs}

AttrGet(attrs, key) == {p[2] : p \in {q \in attrs : q[1] = key}}

\* ADFNodeModel.model_validate: the node type and every mark type must be
\* known, for the node and for every node below it.
RECURSIVE ModelValidates(_)
ModelValidates(node) ==
    /\ node.type \in NODE_TYPES
    /\ \A i \in 1..Len(node.marks) : node.marks[i].type \in MARK_TYPES
    /\ \A i \in 1..Len(node.content) : ModelValidates(node.content[i])

\* ADFDocument.__init__: a raw document that fails to parse yields the
\* empty document.  A raw document is [version, type, content].
\* content_field of a raw document is "list", or "string" for a content
\* that is no array.
EMPTY_ADF_DOCUMENT == [version |-> 1, type |-> "doc", content |-> <<>>, content_field |-> "list"]

RawDoc(content) == [version |-> 1, type |-> "doc", content |-> content, content_field |-> "list"]

\* A parse that also applies the validator's rules for attrs: a heading
\* needs a level of 1 to 6.
ParseDocumentCheckingLevels(data) ==
    IF /\ data.version = 1
       /\ data.type = "doc"
       /\ data.content_field = "list"
       /\ \A i \in 1..Len(data.content) :
              /\ ModelValidates(data.content[i])
              /\ data.content[i].type = "heading" =>
                     \E level \in {"1", "2", "3", "4", "5", "6"} :
                        <<"level", level>> \in data.content[i].attrs
    THEN data.content
    ELSE EMPTY_ADF_DOCUMENT.content

ParseDocument(data) ==
    IF /\ data.version = 1
       /\ data.type = "doc"
       /\ data.content_field = "list"
       /\ \A i \in 1..Len(data.content) : ModelValidates(data.content[i])
    THEN data.content
    ELSE EMPTY_ADF_DOCUMENT.content

\* model_dump(exclude_none=True, exclude_unset=True) of the nodes of a list:
\* the children of a node appear only if its content field is set and not
\* None, whatever its live list holds.
RECURSIVE ModelDump(_)
ModelDump(nodes) ==
    [i \in 1..Len(nodes) |->
        IF nodes[i].content_field = "list"
        THEN [nodes[i] EXCEPT !.content = ModelDump(@)]
        ELSE [nodes[i] EXCEPT !.content = <<>>, !.content_field = "unset"]]

\* ADFDocument.to_dict
ToDict(content) == RawDoc(ModelDump(content))

------------------------------------------------------------------------------
(* Path-addressed access (document.py).  A document is the sequence of its *)
(* top-level nodes, _model.content.                                        *)

\* What a lookup gives when it raises TypeError: subscripting the None
\* content of a node is not among the errors _get_node_by_path catches.
TypeErrorRaised == Node("TypeError", <<>>, <<>>, {}, <<>>)

\* ADFDocument._get_node_by_path / _get_element_at_path
RECURSIVE GetNodeByPath(_, _)
GetNodeByPath(content, path) ==
    IF path = <<>> THEN None
    ELSE IF path[1] >= Len(content) THEN None
    ELSE IF Len(path) = 1 THEN content[path[1] + 1]
    ELSE IF content[path[1] + 1].content_field = "null" THEN TypeErrorRaised
    ELSE GetNodeByPath(content[path[1] + 1].content, Tail(path))

\* ADFDocument._get_parent_at_path: the child list of the node at path, or
\* the top-level list for the empty path; found = FALSE stands for None.
RECURSIVE GetParentAtPath(_, _)
GetParentAtPath(content, path) ==
    IF path = <<>> THEN [found |-> TRUE, list |-> content]
    ELSE IF path[1] >= Len(content) THEN [found |-> FALSE, list |-> <<>>]
    ELSE IF content[path[1] + 1].content_field = "null" THEN [found |-> FALSE, list |-> <<>>]
    ELSE GetParentAtPath(content[path[1] + 1].content, Tail(path))

\* The tree with the child list at parent_path (which resolves) set to list:
\* the effect of mutating the live list _get_parent_at_path returned.
RECURSIVE SetListAt(_, _, _)
SetListAt(content, parent_path, list) ==
    IF parent_path = <<>> THEN list
    ELSE [content EXCEPT ![parent_path[1] + 1].content =
              SetListAt(@, Tail(parent_path), list)]

ParentPath(path) == SubSeq(path, 1, Len(path) - 1)

LastIndex(path) == path[Len(path)]

InsertInto(list, index, node) ==
    SubSeq(list, 1, index) \o <<node>> \o SubSeq(list, index + 1, Len(list))

RemoveFrom(list, index) ==
    SubSeq(list, 1, index) \o SubSeq(list, index + 2, Len(list))

Min(a, b) == IF a < b THEN a ELSE b

Max(a, b) == IF a > b THEN a ELSE b

\* The three mutators return [ok, raised, content]: ok is the boolean the
\* method returns, raised says that model_validate threw out of the method
\* (a pydantic ValidationError is neither IndexError nor TypeError).

\* ADFDocument._replace_element_at_path
ReplaceElementAtPath(content, path, new_element) ==
    LET parent == GetParentAtPath(content, ParentPath(path)) IN
    IF path = <<>> THEN [ok |-> FALSE, raised |-> FALSE, content |-> content]
    ELSE IF ~parent.found \/ LastIndex(path) >= Len(parent.list)
    THEN [ok |-> FALSE, raised |-> FALSE, content |-> content]
    ELSE IF ~ModelValidates(new_element)
    THEN [ok |-> FALSE, raised |-> TRUE, content |-> content]
    ELSE [ok |-> TRUE, raised |-> FALSE,
          content |-> SetListAt(content, ParentPath(path),
                          [parent.list EXCEPT ![LastIndex(path) + 1] = new_element])]

\* _insert_element_at_path with an index that is refused, not clamped, when
\* it lies outside the child list.
InsertElementAtPathRefusing(content, parent_path, index, new_element) ==
    LET parent == GetParentAtPath(content, parent_path) IN
    IF ~parent.found \/ index < 0 \/ index > Len(parent.list)
    THEN [ok |-> FALSE, raised |-> FALSE, content |-> content]
    ELSE IF ~ModelValidates(new_element)
    THEN [ok |-> FALSE, raised |-> TRUE, content |-> content]
    ELSE [ok |-> TRUE, raised |-> FALSE,
          content |-> SetListAt(content, parent_path,
                          InsertInto(parent.list, index, new_element))]

\* ADFDocument._insert_element_at_path
InsertElementAtPath(content, parent_path, index, new_element) ==
    LET parent == GetParentAtPath(content, parent_path)
        insert_index == Max(0, Min(index, Len(parent.list)))
    IN
    IF ~parent.found THEN [ok |-> FALSE, raised |-> FALSE, content |-> content]
    ELSE IF ~ModelValidates(new_element)
    THEN [ok |-> FALSE, raised |-> TRUE, content |-> content]
    ELSE [ok |-> TRUE, raised |-> FALSE,
          content |-> SetListAt(content, parent_path,
                          InsertInto(parent.list, insert_index, new_element))]

\* ADFDocument._delete_element_at_path
DeleteElementAtPath(content, path) ==
    LET parent == GetParentAtPath(content, ParentPath(path)) IN
    IF path = <<>> THEN [ok |-> FALSE, raised |-> FALSE, content |-> content]
    ELSE IF ~parent.found \/ LastIndex(path) >= Len(parent.list)
    THEN [ok |-> FALSE, raised |-> FALSE, content |-> content]
    ELSE [ok |-> TRUE, raised |-> FALSE,
          content |-> SetListAt(content, ParentPath(path),
                          RemoveFrom(parent.list, LastIndex(path)))]

------------------------------------------------------------------------------
(* The finder (finder.py).  A criteria is [keys, text, node_type,           *)
(* json_path, attributes, marks, index, mistyped]: keys is the set of keys *)
(* the criteria dict holds, the other fields their values.  json_path is   *)
(* the string as the sequence of its tokens ("$", ".", "[", "]", a digit,  *)
(* a name), attributes a set of <<key, value>>, marks a sequence of mark   *)
(* types.  mistyped holds the keys whose value is of another type than the *)
(* search takes: None for text, a number for node_type, a string for       *)
(* attributes and for marks.                                               *)

Criteria(keys, text, node_type) ==
    [keys |-> keys, text |-> text, node_type |-> node_type,
     json_path |-> <<>>, attributes |-> {}, marks |-> <<>>, index |-> 0,
     mistyped |-> {}]

\* criteria.get(key) is truthy
HasText(criteria) ==
    "text" \in criteria.keys /\ "text" \notin criteria.mistyped /\ criteria.text # <<>>

HasNodeType(criteria) ==
    "node_type" \in criteria.keys
    /\ ("node_type" \in criteria.mistyped \/ criteria.node_type # "")

\* criteria.get(key) is truthy for json_path, attributes and marks;
\* criteria.get("index") is not None for index.
Truthy(criteria, key) ==
    /\ key \in criteria.keys
    /\ CASE key = "json_path" -> criteria.json_path # <<>>
         [] key = "attributes" -> "attributes" \in criteria.mistyped \/ criteria.attributes # {}
         [] key = "marks" -> "marks" \in criteria.mistyped \/ criteria.marks # <<>>
         [] key = "index" -> TRUE

\* The paths of the nodes under `nodes`, in the order the recursive searches
\* visit them: a node, then its content, then its next sibling.
RECURSIVE WalkFrom(_, _, _)
WalkFrom(nodes, path, i) ==
    IF i > Len(nodes) THEN <<>>
    ELSE LET current_path == Append(path, i - 1) IN
         <<current_path>>
         \o WalkFrom(nodes[i].content, current_path, 1)
         \o WalkFrom(nodes, path, i + 1)

\* text_matches of _search_by_text_content with case_sensitive=False,
\* behind the "node_text and" test of _search_text_recursive
TextMatches(node, text_query) ==
    node.text # <<>> /\ IsSubstr(LowerStr(text_query), LowerStr(node.text))

\* type_matches of _search_by_node_type
TypeMatches(node, node_type) == node.type = node_type

\* attributes_match of _search_by_attributes
AttributesMatch(node, criteria) ==
    /\ "attributes" \notin criteria.mistyped
    /\ IF node.attrs = {} THEN criteria.attributes = {}
       ELSE \A p \in criteria.attributes : AttrGet(node.attrs, p[1]) = {p[2]}

\* marks_match of _search_by_marks; the characters of a string given for
\* the list are no mark types.
MarksMatch(node, criteria) ==
    IF node.marks = <<>> THEN criteria.marks = <<>> /\ "marks" \notin criteria.mistyped
    ELSE /\ "marks" \notin criteria.mistyped
         /\ \A i \in 1..Len(criteria.marks) :
                \E j \in 1..Len(node.marks) : node.marks[j].type = criteria.marks[i]

\* ADFFinder._node_matches_complex_criteria
NodeMatchesComplexCriteria(node, criteria) ==
    /\ HasText(criteria) => TextMatches(node, criteria.text)
    /\ HasNodeType(criteria) =>
          ("node_type" \notin criteria.mistyped /\ TypeMatches(node, criteria.node_type))
    /\ Truthy(criteria, "attributes") =>
          \A p \in criteria.attributes : AttrGet(node.attrs, p[1]) = {p[2]}
    /\ Truthy(criteria, "marks") =>
          \A i \in 1..Len(criteria.marks) :
             \E j \in 1..Len(node.marks) : node.marks[j].type = criteria.marks[i]

\* The choice among the node-by-node strategies with node_type tried
\* before text.
NodeSelectedTypeFirst(node, criteria) ==
    IF HasNodeType(criteria)
    THEN "node_type" \notin criteria.mistyped /\ TypeMatches(node, criteria.node_type)
    ELSE IF HasText(criteria) THEN TextMatches(node, criteria.text)
    ELSE IF Truthy(criteria, "attributes") THEN AttributesMatch(node, criteria)
    ELSE IF Truthy(criteria, "marks") THEN MarksMatch(node, criteria)
    ELSE NodeMatchesComplexCriteria(node, criteria)

\* The strategy find_elements picks among those that test node by node:
\* text, node_type, attributes, marks, and the compound walk when no value
\* is truthy.
NodeSelected(node, criteria) ==
    IF HasText(criteria) THEN TextMatches(node, criteria.text)
    ELSE IF HasNodeType(criteria)
    THEN "node_type" \notin criteria.mistyped /\ TypeMatches(node, criteria.node_type)
    ELSE IF Truthy(criteria, "attributes") THEN AttributesMatch(node, criteria)
    ELSE IF Truthy(criteria, "marks") THEN MarksMatch(node, criteria)
    ELSE NodeMatchesComplexCriteria(node, criteria)

\* One SearchResult; parent is what _add_context_to_results fills in.
SearchResult(content, path) ==
    LET node == GetNodeByPath(content, path) IN
    [node |-> node,
     path |-> path,
     text_content |-> node.text,
     parent |-> IF Len(path) > 1 THEN GetNodeByPath(content, ParentPath(path)) ELSE None,
     index |-> LastIndex(path)]

\* _sort_search_results leaving the results in the order of the walk.
SortSearchResultsUnsorted(results) == results

\* ADFFinder._sort_search_results: sorted() by (path depth, not has_text),
\* stable.  Results of one depth: the text-bearing ones, then the others.
RECURSIVE SortFromDepth(_, _, _)
SortFromDepth(results, depth, max_depth) ==
    IF depth > max_depth THEN <<>>
    ELSE LET WithText(r) == Len(r.path) = depth /\ r.text_content # <<>>
             WithoutText(r) == Len(r.path) = depth /\ r.text_content = <<>>
         IN SelectSeq(results, WithText) \o SelectSeq(results, WithoutText)
            \o SortFromDepth(results, depth + 1, max_depth)

RECURSIVE MaxPathLen(_)
MaxPathLen(results) ==
    IF results = <<>> THEN 0
    ELSE Max(Len(Head(results).path), MaxPathLen(Tail(results)))

SortSearchResults(results) == SortFromDepth(results, 1, MaxPathLen(results))

\* ADFFinder._parse_simple_json_path: the leading "$" and "." stripped, the
\* rest split at ".", "[" and "]", empty pieces dropped, a piece of digits
\* made an int.  A part is [is_int, int, name].
ParseSimpleJsonPath(json_path) ==
    LET RECURSIVE LStrip(_)
        LStrip(tokens) ==
            IF tokens # <<>> /\ Head(tokens) \in {"$", "."} THEN LStrip(Tail(tokens))
            ELSE tokens
        RECURSIVE Split(_, _)
        Split(tokens, piece) ==
            IF tokens = <<>> THEN (IF piece = <<>> THEN <<>> ELSE <<piece>>)
            ELSE IF Head(tokens) \in {".", "[", "]"}
            THEN (IF piece = <<>> THEN <<>> ELSE <<piece>>) \o Split(Tail(tokens), <<>>)
            ELSE Split(Tail(tokens), Append(piece, Head(tokens)))
        Digit(token) ==
            CASE token = "0" -> 0 [] token = "1" -> 1 [] token = "2" -> 2
              [] token = "3" -> 3 [] token = "4" -> 4 [] token = "5" -> 5
              [] token = "6" -> 6 [] token = "7" -> 7 [] token = "8" -> 8
              [] token = "9" -> 9 [] OTHER -> -1
        IsDigit(piece) == \A i \in 1..Len(piece) : Digit(piece[i]) >= 0
        RECURSIVE IntOf(_, _)
        IntOf(piece, value) ==
            IF piece = <<>> THEN value
            ELSE IntOf(Tail(piece), 10 * value + Digit(Head(piece)))
        pieces == Split(LStrip(json_path), <<>>)
    IN [i \in 1..Len(pieces) |->
           IF IsDigit(pieces[i])
           THEN [is_int |-> TRUE, int |-> IntOf(pieces[i], 0), name |-> <<>>]
           ELSE [is_int |-> FALSE, int |-> 0, name |-> pieces[i]]]

\* ADFFinder._traverse_json_path.  current is [kind, node, list]: a list of
\* nodes, a node, the value of another field of a node, or None.  An int
\* part indexes a list; a name takes the attribute of that name, which a
\* node has for its fields and a list has not.
RECURSIVE TraverseJsonPath(_, _)
TraverseJsonPath(current, path_parts) ==
    LET part == Head(path_parts)
        NoElement == [kind |-> "None", node |-> None, list |-> <<>>]
    IN
    IF path_parts = <<>> THEN current
    ELSE IF part.is_int
    THEN IF current.kind = "list" /\ part.int < Len(current.list)
         THEN TraverseJsonPath([kind |-> "node", node |-> current.list[part.int + 1],
                                list |-> <<>>], Tail(path_parts))
         ELSE NoElement
    ELSE IF current.kind = "node" /\ part.name = <<"content">>
    THEN IF current.node.content_field = "null"
         THEN TraverseJsonPath(NoElement, Tail(path_parts))
         ELSE TraverseJsonPath([kind |-> "list", node |-> None,
                                list |-> current.node.content], Tail(path_parts))
    ELSE IF current.kind = "node" /\ part.name = <<"type">>
    THEN TraverseJsonPath([kind |-> "value", node |-> None, list |-> <<>>],
                          Tail(path_parts))
    ELSE NoElement

\* ADFFinder._search_by_json_path, with the parent _add_context_to_results
\* fills in: at most one result, whose path holds the int parts.
SearchByJsonPath(content, json_path) ==
    LET path_parts == ParseSimpleJsonPath(json_path)
        element == TraverseJsonPath([kind |-> "list", node |-> None, list |-> content],
                                    path_parts)
        IsInt(part) == part.is_int
        ints == SelectSeq(path_parts, IsInt)
        numeric_path == [i \in 1..Len(ints) |-> ints[i].int]
    IN IF path_parts = <<>> \/ element.kind = "None" THEN <<>>
       ELSE << [node |-> IF element.kind = "node" THEN element.node
                         ELSE Node("unknown", <<>>, <<>>, {}, <<>>),
                path |-> numeric_path,
                text_content |-> IF element.kind = "node" THEN element.node.text ELSE <<>>,
                parent |-> IF Len(numeric_path) > 1
                           THEN GetNodeByPath(content, ParentPath(numeric_path))
                           ELSE None,
                index |-> IF numeric_path = <<>> THEN 0 ELSE LastIndex(numeric_path)] >>

\* ADFFinder.find_elements with limit=None on a fresh finder (find_element_in_adf):
\* [raised, results].  An empty criteria raises ValueError.  The first
\* strategy whose key holds a truthy value is taken: json_path, text,
\* node_type, attributes, marks, index (_search_by_index at depth 1), and
\* the compound walk when there is none.
FindElements(content, criteria) ==
    IF criteria.keys = {} THEN [raised |-> TRUE, results |-> <<>>]
    ELSE LET walk == WalkFrom(content, <<>>, 1)
             Hit(path) == NodeSelected(GetNodeByPath(content, path), criteria)
             hits == SelectSeq(walk, Hit)
             by_node == [i \in 1..Len(hits) |-> SearchResult(content, hits[i])]
             by_index == IF criteria.index >= 0 /\ criteria.index < Len(content)
                         THEN << SearchResult(content, <<criteria.index>>) >>
                         ELSE <<>>
             found == IF Truthy(criteria, "json_path")
                      THEN SearchByJsonPath(content, criteria.json_path)
                      ELSE IF \/ HasText(criteria) \/ HasNodeType(criteria)
                              \/ Truthy(criteria, "attributes") \/ Truthy(criteria, "marks")
                      THEN by_node
                      ELSE IF Truthy(criteria, "index") THEN by_index
                      ELSE by_node
         IN [raised |-> FALSE, results |-> SortSearchResults(found)]

\* ADFDocument._node_matches_criteria: every key the criteria holds is
\* tested, in the order text, node_type, attributes, marks; json_path and
\* index are not looked at.  "raise" is the AttributeError of None.lower()
\* for a text of None next to a node with text, and of str.items() for
\* attributes given as a string.
DocumentNodeMatchesCriteria(node, criteria) ==
    IF "text" \in criteria.keys /\ node.text = <<>> THEN "no"
    ELSE IF "text" \in criteria.keys /\ "text" \in criteria.mistyped THEN "raise"
    ELSE IF "text" \in criteria.keys
            /\ ~IsSubstr(LowerStr(criteria.text), LowerStr(node.text)) THEN "no"
    ELSE IF "node_type" \in criteria.keys
            /\ ("node_type" \in criteria.mistyped \/ node.type # criteria.node_type)
    THEN "no"
    ELSE IF "attributes" \in criteria.keys /\ "attributes" \in criteria.mistyped
    THEN "raise"
    ELSE IF "attributes" \in criteria.keys
            /\ ~(\A p \in criteria.attributes : AttrGet(node.attrs, p[1]) = {p[2]})
    THEN "no"
    ELSE IF "marks" \in criteria.keys
            /\ ("marks" \in criteria.mistyped
                \/ ~(\A i \in 1..Len(criteria.marks) :
                        \E j \in 1..Len(node.marks) :
                           node.marks[j].type = criteria.marks[i]))
    THEN "no"
    ELSE "match"

\* The SearchResult of ADFDocument._find_elements_recursive for the node at
\* current_path = path + [i]: no parent at the top level, the document
\* model for a path of length 1, and the node at path[:-1] below that.
DocumentSearchResult(content, current_path) ==
    LET node == GetNodeByPath(content, current_path)
        path == ParentPath(current_path)
    IN [node |-> node,
        path |-> current_path,
        text_content |-> node.text,
        parent |-> IF Len(path) = 0 THEN None
                   ELSE IF Len(path) = 1 THEN RawDoc(content)
                   ELSE GetNodeByPath(content, ParentPath(path)),
        index |-> LastIndex(current_path)]

\* ADFDocument.find_elements(criteria): [raised, results], the matching
\* nodes in the order of the walk.
DocumentFindElements(content, criteria) ==
    LET walk == WalkFrom(content, <<>>, 1)
        Outcome(path) == DocumentNodeMatchesCriteria(GetNodeByPath(content, path), criteria)
        Hit(path) == Outcome(path) = "match"
        hits == SelectSeq(walk, Hit)
    IN IF \E i \in 1..Len(walk) : Outcome(walk[i]) = "raise"
       THEN [raised |-> TRUE, results |-> <<>>]
       ELSE [raised |-> FALSE,
             results |-> [i \in 1..Len(hits) |-> DocumentSearchResult(content, hits[i])]]

\* The results find_elements returns under a limit (0 stands for None):
\* results[:limit] when the limit is truthy and below their number.
Truncated(results, limit) ==
    IF limit = 0 \/ Len(results) <= limit THEN results
    ELSE IF limit > 0 THEN SubSeq(results, 1, limit)
    ELSE SubSeq(results, 1, Max(0, Len(results) + limit))

\* ADFFinder._generate_cache_key(criteria, limit): the dump of the criteria
\* with its keys sorted, which holds the supplied keys and their values and
\* nothing else, and the limit.
GenerateCacheKey(criteria, limit) ==
    LET Given(key, value, blank) == IF key \in criteria.keys THEN value ELSE blank IN
    [criteria_str |->
        [keys |-> criteria.keys,
         text |-> Given("text", criteria.text, <<>>),
         node_type |-> Given("node_type", criteria.node_type, ""),
         json_path |-> Given("json_path", criteria.json_path, <<>>),
         attributes |-> Given("attributes", criteria.attributes, {}),
         marks |-> Given("marks", criteria.marks, <<>>),
         index |-> Given("index", criteria.index, 0),
         mistyped |-> criteria.mistyped],
     limit |-> limit]

\* `cached_results[:limit] if limit else cached_results`
CachedResults(cached_results, limit) ==
    IF limit = 0 THEN cached_results
    ELSE IF limit > 0 THEN SubSeq(cached_results, 1, Min(limit, Len(cached_results)))
    ELSE SubSeq(cached_results, 1, Max(0, Len(cached_results) + limit))

\* ADFFinder.find_elements(criteria, document, limit=limit,
\* cache_results=cache_results) on a finder that is kept (limit 0 stands
\* for None): [raised, results, search_cache].
FinderFindElements(search_cache, content, criteria, limit, cache_results) ==
    LET cache_key == GenerateCacheKey(criteria, limit)
        found == FindElements(content, criteria)
        results == Truncated(found.results, limit)
    IN IF found.raised
       THEN [raised |-> TRUE, results |-> <<>>, search_cache |-> search_cache]
       ELSE IF cache_results /\ cache_key \in DOMAIN search_cache
       THEN [raised |-> FALSE,
             results |-> CachedResults(search_cache[cache_key], limit),
             search_cache |-> search_cache]
       ELSE [raised |-> FALSE, results |-> results,
             search_cache |->
                IF cache_results
                THEN [key \in DOMAIN search_cache \cup {cache_key} |->
                         IF key = cache_key THEN results ELSE search_cache[key]]
                ELSE search_cache]

------------------------------------------------------------------------------
(* The validator (validator.py), on the dict to_dict() gives.              *)

HeadingLevels == {"1", "2", "3", "4", "5", "6"}

PANEL_TYPES == {"info", "note", "warning", "error", "success", "tip"}

\* _validate_marks with _validate_mark_attributes: a link mark needs href.
ValidateMarks(marks) ==
    \A i \in 1..Len(marks) :
        /\ marks[i].type \in MARK_TYPES
        /\ marks[i].type = "link" => AttrGet(marks[i].attrs, "href") # {}

\* _validate_node_specific: heading, panel, table and extension nodes.
ValidateNodeSpecific(node) ==
    CASE node.type = "heading" ->
            /\ AttrGet(node.attrs, "level") # {}
            /\ AttrGet(node.attrs, "level") \subseteq HeadingLevels
      [] node.type = "panel" ->
            /\ AttrGet(node.attrs, "panelType") # {}
            /\ AttrGet(node.attrs, "panelType") \subseteq PANEL_TYPES
      [] node.type = "table" ->
            \A i \in 1..Len(node.content) :
                /\ node.content[i].type = "tableRow"
                /\ \A j \in 1..Len(node.content[i].content) :
                       node.content[i].content[j].type \in {"tableCell", "tableHeader"}
      [] node.type \in {"extension", "bodiedExtension", "inlineExtension"} ->
            {"extensionType", "extensionKey"} \subseteq AttrKeys(node.attrs)
      [] OTHER -> TRUE

\* _validate_content_array and validate_node: TRUE iff no error is added.
\* current_depth is the number of content arrays entered above this one;
\* a node without the key "content" has no array to check.
RECURSIVE ValidateContentArray(_, _)
ValidateContentArray(content, current_depth) ==
    /\ current_depth <= MAX_DEPTH
    /\ \A i \in 1..Len(content) :
           /\ content[i].type \in NODE_TYPES
           /\ ValidateMarks(content[i].marks)
           /\ content[i].content_field # "null"
           /\ content[i].content_field = "list" =>
                  ValidateContentArray(content[i].content, current_depth + 1)
           /\ ValidateNodeSpecific(content[i])

\* ADFValidator.validate_document: len(self.errors) == 0
ValidateDocument(document) ==
    /\ document.version = 1
    /\ document.type = "doc"
    /\ document.content_field = "list"
    /\ ValidateContentArray(document.content, 0)

------------------------------------------------------------------------------
(* The validator as an object (validator.py): one ADFValidator kept across *)
(* calls, walking dicts.  A dict document is an object graph [version,     *)
(* type, content_field, content, nodes]: nodes[id] is a dict node, content *)
(* and the content of a node are lists of ids, so that a node may hold     *)
(* itself.  A dict node is [type, text, marks, attrs, content, has, null]: *)
(* has are the keys it has, and null those of them whose value is null.    *)
(* The nodes of the inputs carry no color attribute.                       *)

MAX_TEXT_LENGTH == 10000

MAX_ATTRS_PER_NODE == 50

\* _add_error: the path keeps its integers; severity "error" goes to
\* self.errors, "warning" to self.warnings.
ValidationError(path, message, severity) ==
    [path |-> path, message |-> message, severity |-> severity]

\* validate_node on a dict node, up to the walk into its content:
\* the type, then _validate_node_structure's attrs, marks, text and the
\* two checks of _validate_content_array before its loop, the second of
\* them against the depth given.  [errors, warnings, known, descend].
ValidateNodeWithin(max_depth, node, path, current_depth) ==
    LET E(message) == << ValidationError(path, message, "error") >>
        W(message) == << ValidationError(path, message, "warning") >>
        Has(key) == key \in node.has
        Null(key) == key \in node.null
        attrs_errors ==
            IF Has("attrs") /\ Null("attrs") THEN E("Attributes must be a dictionary")
            ELSE <<>>
        attrs_warnings ==
            IF Has("attrs") /\ ~Null("attrs") /\ Cardinality(node.attrs) > MAX_ATTRS_PER_NODE
            THEN W("Node has many attributes") ELSE <<>>
        first_bad_mark ==
            CHOOSE i \in 1..Len(node.marks) :
                /\ ~ValidateMarks(<< node.marks[i] >>)
                /\ \A j \in 1..(i - 1) : ValidateMarks(<< node.marks[j] >>)
        marks_errors ==
            IF ~Has("marks") THEN <<>>
            ELSE IF Null("marks") THEN E("Marks must be an array")
            ELSE IF ValidateMarks(node.marks) THEN <<>>
            ELSE IF node.marks[first_bad_mark].type \notin MARK_TYPES
            THEN E("invalid_mark_type")
            ELSE E("Link mark missing required 'href' attribute")
        text_errors ==
            IF Has("text") /\ Null("text") THEN E("Text content must be a string")
            ELSE <<>>
        text_warnings ==
            IF Has("text") /\ ~Null("text") /\ Len(node.text) > MAX_TEXT_LENGTH
            THEN W("Text content is very long") ELSE <<>>
        content_errors ==
            IF ~Has("content") THEN <<>>
            ELSE IF Null("content") THEN E("Content must be an array")
            ELSE IF current_depth > max_depth THEN E("max_depth_exceeded")
            ELSE <<>>
    IN IF node.type = ""
       THEN [errors |-> E("Node missing required 'type' field"), warnings |-> <<>>,
             known |-> FALSE, descend |-> FALSE]
       ELSE IF node.type \notin NODE_TYPES
       THEN [errors |-> E("invalid_node_type"), warnings |-> <<>>,
             known |-> FALSE, descend |-> FALSE]
       ELSE [errors |-> attrs_errors \o marks_errors \o text_errors \o content_errors,
             warnings |-> attrs_warnings \o text_warnings,
             known |-> TRUE,
             descend |-> Has("content") /\ content_errors = <<>>]

\* The walk with a check of the depth that never fires.
ValidateNodeStructureUnbounded(node, path, current_depth) ==
    ValidateNodeWithin(current_depth, node, path, current_depth)

\* validate_node with `if self.current_depth > MAX_DEPTH`.
ValidateNodeStructure(node, path, current_depth) ==
    ValidateNodeWithin(MAX_DEPTH, node, path, current_depth)

\* _validate_node_specific on a dict node: [errors, warnings, raised].
\* node.get("attrs", {}) is None when attrs is null, and the .get or `in`
\* on it raises; so does the loop over the content of a row that is null.
ValidateNodeSpecificErrors(document, node, path) ==
    LET Outcome(errors, warnings, raised) ==
            [errors |-> errors, warnings |-> warnings, raised |-> raised]
        E(p, message) == Outcome(<< ValidationError(p, message, "error") >>, <<>>, FALSE)
        Passed == Outcome(<<>>, <<>>, FALSE)
        Raises == Outcome(<<>>, <<>>, TRUE)
        attrs_null == "attrs" \in node.null
        Get(key) == AttrGet(node.attrs, key)
        no_content == "content" \notin node.has \/ "content" \in node.null
                         \/ node.content = <<>>
        Row(i) == document.nodes[node.content[i]]
        Cell(i, j) == document.nodes[Row(i).content[j]]
        BadCells(i) == {j \in 1..Len(Row(i).content) :
                           Cell(i, j).type \notin {"tableCell", "tableHeader"}}
        RowOutcome(i) ==
            IF Row(i).type # "tableRow"
            THEN E(path \o <<i - 1>>, "Table content must be tableRow nodes")
            ELSE IF "content" \in Row(i).null THEN Raises
            ELSE IF BadCells(i) # {}
            THEN E(path \o <<i - 1, (CHOOSE j \in BadCells(i) :
                                        \A k \in BadCells(i) : j <= k) - 1>>,
                   "Invalid table cell type")
            ELSE Passed
        BadRows == {i \in 1..Len(node.content) : RowOutcome(i) # Passed}
    IN CASE node.type = "heading" ->
              IF attrs_null THEN Raises
              ELSE IF Get("level") = {}
              THEN E(path, "Heading node missing required 'level' attribute")
              ELSE IF ~(Get("level") \subseteq HeadingLevels)
              THEN E(path, "Heading level must be integer between 1 and 6")
              ELSE Passed
         [] node.type = "panel" ->
              IF attrs_null THEN Raises
              ELSE IF Get("panelType") = {}
              THEN E(path, "Panel node missing required 'panelType' attribute")
              ELSE IF ~(Get("panelType") \subseteq PANEL_TYPES)
              THEN E(path, "Invalid panel type")
              ELSE Passed
         [] node.type = "table" ->
              IF no_content
              THEN Outcome(<<>>, << ValidationError(path, "Empty table", "warning") >>, FALSE)
              ELSE IF BadRows = {} THEN Passed
              ELSE RowOutcome(CHOOSE i \in BadRows : \A k \in BadRows : i <= k)
         [] node.type \in {"extension", "bodiedExtension", "inlineExtension"} ->
              IF attrs_null THEN Raises
              ELSE IF "extensionType" \notin AttrKeys(node.attrs)
              THEN E(path, "Extension missing required 'extensionType' attribute")
              ELSE IF "extensionKey" \notin AttrKeys(node.attrs)
              THEN E(path, "Extension missing required 'extensionKey' attribute")
              ELSE Passed
         [] OTHER -> Passed

\* ADFValidator.__init__, and what the model keeps of its calls: the dict
\* under validation and the stack of the loops of _validate_content_array
\* that are running, the entry point called and what it returned, the state
\* the walk of the call started from, the ValidationResult it returned and
\* one that an earlier call returned.
NewValidator ==
    [errors |-> <<>>, warnings |-> <<>>, current_depth |-> 0,
     stack |-> <<>>,
     document |-> [version |-> 1, type |-> "doc", content_field |-> "list",
                   content |-> <<>>, nodes |-> <<>>],
     call |-> "", returned |-> "", calls |-> 0,
     start |-> [errors |-> <<>>, warnings |-> <<>>, current_depth |-> 0],
     result |-> [given |-> FALSE, is_valid |-> FALSE, errors |-> <<>>, warnings |-> <<>>],
     held |-> [given |-> FALSE, is_valid |-> FALSE, errors |-> <<>>, warnings |-> <<>>]]

\* The end of a call with a verdict that counts the warnings too.
ValidationReturnsCountingWarnings(v, raised) ==
    LET is_valid == ~raised /\ Len(v.errors) + Len(v.warnings) = 0 IN
    [v EXCEPT
        !.stack = <<>>,
        !.returned = IF is_valid THEN "True" ELSE "False",
        !.result = [given |-> v.call = "validate_with_details", is_valid |-> is_valid,
                    errors |-> v.errors, warnings |-> v.warnings]]

\* The end of a call.  validate_document returns len(self.errors) == 0, and
\* False after adding an error when an exception reached it;
\* validate_with_details wraps that with deep copies of the two lists;
\* validate_node returns len(self.errors) == 0, and an exception leaves it.
ValidationReturns(v, raised) ==
    LET errors == IF raised /\ v.call # "validate_node"
                  THEN v.errors \o << ValidationError(<<>>, "Validation failed with exception", "error") >>
                  ELSE v.errors
        is_valid == IF raised THEN FALSE ELSE Len(errors) = 0
    IN [v EXCEPT
           !.errors = errors,
           !.stack = <<>>,
           !.returned = IF raised /\ v.call = "validate_node" THEN "raised"
                        ELSE IF is_valid THEN "True" ELSE "False",
           !.result = IF v.call = "validate_with_details"
                      THEN [given |-> TRUE, is_valid |-> is_valid,
                            errors |-> errors, warnings |-> v.warnings]
                      ELSE [given |-> FALSE, is_valid |-> FALSE,
                            errors |-> <<>>, warnings |-> <<>>]]

------------------------------------------------------------------------------
(* The writer's operations (writer.py).  An UpdateOperation is             *)
(* [operation_type, target_criteria, new_content, new_text,                *)
(*  preserve_attributes, preserve_marks, modifications]: new_content is    *)
(* the node of a replace or an insert, new_text the new_content of an      *)
(* update_text, modifications a sequence of [key, text, attrs].            *)

valid_operation_types ==
    {"replace", "modify", "insert_before", "insert_after", "delete", "update_text"}

Op(type, criteria, new_content, new_text, mods) ==
    [operation_type |-> type, target_criteria |-> criteria,
     new_content |-> new_content, new_text |-> new_text,
     preserve_attributes |-> TRUE, preserve_marks |-> TRUE,
     modifications |-> mods]

MarkTypes(marks) == {marks[i].type : i \in 1..Len(marks)}

\* The new element of _apply_replace_operation: the original's attrs under
\* the new ones, the original's marks of a type the new text node lacks.
MergedElement(original_element, operation) ==
    LET new_element == operation.new_content
        with_attrs ==
            IF operation.preserve_attributes /\ original_element.attrs # {}
            THEN [new_element EXCEPT !.attrs =
                      new_element.attrs \cup
                      {p \in original_element.attrs : p[1] \notin AttrKeys(new_element.attrs)}]
            ELSE new_element
        existing_mark_types == MarkTypes(with_attrs.marks)
        Missing(mark) == mark.type \notin existing_mark_types
    IN IF /\ operation.preserve_marks
          /\ original_element.marks # <<>>
          /\ with_attrs.type = "text"
       THEN [with_attrs EXCEPT !.marks = @ \o SelectSeq(original_element.marks, Missing)]
       ELSE with_attrs

\* The node at path (which resolves) set to node: an in-place change of the
\* live model node.
SetNodeAt(content, path, node) ==
    LET parent == GetParentAtPath(content, ParentPath(path)) IN
    SetListAt(content, ParentPath(path), [parent.list EXCEPT ![LastIndex(path) + 1] = node])

\* The applied_count a per-element method adds and the tree it leaves:
\* [count, content].  A method that raises adds nothing (_apply_operation
\* catches and continues).
Applied(count, content) == [count |-> count, content |-> content]

\* ADFWriter._apply_replace_operation
ApplyReplaceOperation(content, element_result, operation) ==
    LET r == ReplaceElementAtPath(content, element_result.path,
                                  MergedElement(element_result.node, operation))
    IN Applied(IF r.ok THEN 1 ELSE 0, r.content)

\* setattr of one modification on the model node; keys that are no field
\* of the node are skipped.
RECURSIVE Modified(_, _)
Modified(node, modifications) ==
    IF modifications = <<>> THEN node
    ELSE LET m == Head(modifications)
             next == CASE m.key = "text" -> [node EXCEPT !.text = m.text]
                       [] m.key = "attrs" -> [node EXCEPT !.attrs = m.attrs]
                       [] OTHER -> node
         IN Modified(next, Tail(modifications))

\* ADFWriter._apply_modify_operation
ApplyModifyOperation(content, element_result, operation) ==
    LET current_element == GetNodeByPath(content, element_result.path) IN
    IF current_element = None THEN Applied(0, content)
    ELSE Applied(1, SetNodeAt(content, element_result.path,
                              Modified(current_element, operation.modifications)))

\* ADFWriter._apply_insert_before_operation
ApplyInsertBeforeOperation(content, element_result, operation) ==
    LET path == element_result.path IN
    IF Len(path) < 2 THEN Applied(0, content)
    ELSE LET r == InsertElementAtPath(content, ParentPath(path), LastIndex(path),
                                      operation.new_content)
         IN Applied(IF r.ok THEN 1 ELSE 0, r.content)

\* ADFWriter._apply_insert_after_operation
ApplyInsertAfterOperation(content, element_result, operation) ==
    LET path == element_result.path IN
    IF Len(path) < 2 THEN Applied(0, content)
    ELSE LET r == InsertElementAtPath(content, ParentPath(path), LastIndex(path) + 1,
                                      operation.new_content)
         IN Applied(IF r.ok THEN 1 ELSE 0, r.content)

\* ADFWriter._apply_delete_operation
ApplyDeleteOperation(content, element_result, operation) ==
    LET r == DeleteElementAtPath(content, element_result.path)
    IN Applied(IF r.ok THEN 1 ELSE 0, r.content)

\* A variant of _apply_update_text_operation without the test of the type.
ApplyUpdateTextOperationAnyType(content, element_result, operation) ==
    LET element == GetNodeByPath(content, element_result.path) IN
    IF element = None THEN Applied(0, content)
    ELSE Applied(1, SetNodeAt(content, element_result.path,
                              [element EXCEPT !.text = operation.new_text]))

\* ADFWriter._apply_update_text_operation
ApplyUpdateTextOperation(content, element_result, operation) ==
    LET element == GetNodeByPath(content, element_result.path) IN
    IF element = None THEN Applied(0, content)
    ELSE IF element.type # "text" THEN Applied(0, content)
    ELSE Applied(1, SetNodeAt(content, element_result.path,
                              [element EXCEPT !.text = operation.new_text]))

\* The dispatch of _apply_operation for one matched element.
ApplyToElement(content, element_result, operation) ==
    CASE operation.operation_type = "replace" ->
            ApplyReplaceOperation(content, element_result, operation)
      [] operation.operation_type = "modify" ->
            ApplyModifyOperation(content, element_result, operation)
      [] operation.operation_type = "insert_before" ->
            ApplyInsertBeforeOperation(content, element_result, operation)
      [] operation.operation_type = "insert_after" ->
            ApplyInsertAfterOperation(content, element_result, operation)
      [] operation.operation_type = "delete" ->
            ApplyDeleteOperation(content, element_result, operation)
      [] operation.operation_type = "update_text" ->
            ApplyUpdateTextOperation(content, element_result, operation)
      [] OTHER -> Applied(0, content)

\* The loop of _apply_operation over the elements found before the first
\* of them was touched.
RECURSIVE ApplyToElements(_, _, _, _)
ApplyToElements(content, target_elements, operation, applied_count) ==
    IF target_elements = <<>> THEN Applied(applied_count, content)
    ELSE LET r == ApplyToElement(content, Head(target_elements), operation) IN
         ApplyToElements(r.content, Tail(target_elements), operation,
                         applied_count + r.count)

\* ADFWriter._apply_operation with the try of the caller around it:
\* [success, reason, content].
ApplyOperation(adf_document, operation) ==
    LET found == FindElements(adf_document, operation.target_criteria)
        r == ApplyToElements(adf_document, found.results, operation, 0)
    IN IF found.raised
       THEN [success |-> FALSE, reason |-> "Search criteria are required",
             content |-> adf_document]
       ELSE IF found.results = <<>>
       THEN [success |-> FALSE, reason |-> "No matching elements found",
             content |-> adf_document]
       ELSE IF r.count > 0
       THEN [success |-> TRUE, reason |-> "", content |-> r.content]
       ELSE [success |-> FALSE, reason |-> "No matching elements found",
             content |-> r.content]

------------------------------------------------------------------------------
(* Exceptions and results of update_page_preserving_formatting.            *)

\* An exception: its class, its message, the retry count its message names
\* (-1 when it names none) and the class of the exception it was raised from.
Exc(cls, msg) == [cls |-> cls, msg |-> msg, n |-> -1, cause |-> ""]

NoExc == Exc("", "")

ConflictMessage == "Page version conflict - page may have been updated by another user"

\* "conflict" in str(e).lower()
HasConflict(msg) == msg \in {ConflictMessage, "conflict"}

\* The base classes of MCPAtlassianAuthenticationError, which
\* mcp_atlassian/exceptions.py declares: an error of its own kind, distinct
\* from the ValueError that signals a conflict.
AuthErrorBases == {"Exception"}

\* The exceptions `except ValueError` catches.
IsValueError(cls) ==
    \/ cls = "ValueError"
    \/ cls = "MCPAtlassianAuthenticationError" /\ "ValueError" \in AuthErrorBases

ConflictError == Exc("ValueError", ConflictMessage)

AuthError == Exc("MCPAtlassianAuthenticationError", "Confluence API authentication failed")

HttpError == Exc("HTTPError", "500 Server Error")

OtherValueError == Exc("ValueError", "bad request")

\* What a client call may raise.
ClientErrors == {ConflictError, AuthError, HttpError, OtherValueError}

NoReturn ==
    [success |-> FALSE, applied_operations |-> <<>>, operations_count |-> 0,
     successful_operations |-> 0, validation_result |-> "None", backup_id |-> -1,
     retry_count |-> 0]

NoResult == [kind |-> "none", exc |-> NoExc, ret |-> NoReturn]

Raised(e) == [kind |-> "raise", exc |-> e, ret |-> NoReturn]

Returned(r) == [kind |-> "return", exc |-> NoExc, ret |-> r]

NoPage == [version |-> 0, body |-> EMPTY_ADF_DOCUMENT]

IdleSession ==
    [pc |-> "idle", page_id |-> "", operations |-> <<>>, has_client |-> FALSE,
     validate_before_update |-> FALSE, create_backup |-> FALSE,
     auto_retry_on_conflict |-> FALSE, max_retries |-> 0,
     \* the locals of the call; calls and trail are its history: the client
     \* calls made so far, and the document before each operation of this
     \* attempt and after the last one applied
     retry_count |-> 0, current_page |-> NoPage, adf_document |-> <<>>,
     backup_id |-> -1, applied_operations |-> <<>>, i |-> 0,
     validation_result |-> "None", result |-> NoResult, calls |-> <<>>,
     trail |-> <<>>]

\* One call of the client as the session saw it: get_page_adf with the page
\* it returned, or update_page_adf with the body and the version it was given;
\* exc is what the call raised, NoExc when it returned.
ClientCall(call, exc, version, body) ==
    [call |-> call, exc |-> exc, version |-> version, body |-> body,
     \* for a call through ConfluenceClient: the status of the HTTP response
     \* and the API the page was written through
     status_code |-> 0, via |-> ""]

------------------------------------------------------------------------------
(* The inputs of the model.                                                *)

ta == <<"a">>
tb == <<"b">>
tx == <<"x">>

TextCrit(t) == Criteria({"text"}, t, "")
TypeCrit(t) == Criteria({"node_type"}, <<>>, t)
EmptyCrit == Criteria({}, <<>>, "")

Doc1 == << Para(<< Text(ta, <<Mark("strong")>>), Text(tb, <<>>) >>) >>
Doc2 == << Heading("1", << Text(<<"A", "b">>, <<Mark("em")>>) >>), Para(<< Text(ta, <<>>) >>) >>
Doc3 == << Heading("7", << Text(ta, <<>>) >>) >>

Docs == {Doc1, Doc2, Doc3}

UpdateText(criteria, t) == Op("update_text", criteria, None, t, <<>>)

Batches ==
    { <<>>,
      << Op("rename", TextCrit(ta), None, <<>>, <<>>) >>,
      << UpdateText(TextCrit(ta), tx) >>,
      << UpdateText(TextCrit(ta), tb), UpdateText(TextCrit(tb), tx),
         UpdateText(TextCrit(ta), tx) >>,
      << Op("delete", TextCrit(ta), None, <<>>, <<>>), UpdateText(TextCrit(ta), tx) >>,
      << UpdateText(EmptyCrit, tx), UpdateText(TextCrit(tb), ta) >>,
      << UpdateText(TypeCrit("paragraph"), tx), UpdateText(TextCrit(tx), ta) >>,
      << Op("replace", TypeCrit("paragraph"), Heading("9", <<>>), <<>>, <<>>) >>,
      << Op("replace", TextCrit(tb), Text(tx, <<Mark("blink")>>), <<>>, <<>>),
         Op("insert_after", TextCrit(tb), Text(tx, <<>>), <<>>, <<>>),
         UpdateText(TextCrit(tx), ta) >>,
      << Op("insert_before", TypeCrit("paragraph"), Para(<<>>), <<>>, <<>>),
         Op("modify", TypeCrit("heading"), None, <<>>,
            << [key |-> "attrs", text |-> <<>>, attrs |-> {<<"level", "2">>}],
               [key |-> "colour", text |-> <<>>, attrs |-> {}] >>) >> }

\* page_id: a string, the empty string, None, or a value that is no string
PageIds == {"123456", "", "None", "int"}

------------------------------------------------------------------------------
(* update_page_preserving_formatting (writer.py), cut at the two calls of  *)
(* the client: the checks before the loop, get_page_adf with the parse and *)
(* the backup, one operation of the batch, the validation, update_page_adf *)
(* with the handlers of the try.                                           *)

Finished(session, result) == [session EXCEPT !.pc = "done", !.result = result]

\* A variant of Enter that lets any page_id through.
EnterAnyPageId(session) ==
    IF session.operations = <<>>
    THEN Finished(session, Raised(Exc("ValueError", "At least one operation is required")))
    ELSE IF ~session.has_client
    THEN Finished(session,
                  Raised(Exc("ValueError", "Confluence client is required for page updates")))
    ELSE IF \E k \in 1..Len(session.operations) :
                session.operations[k].operation_type \notin valid_operation_types
    THEN Finished(session, Raised(Exc("ValueError", "Unknown operation type")))
    ELSE IF ~(0 <= session.max_retries)
    THEN Finished(session,
                  Raised([cls |-> "RuntimeError", msg |-> "Page update failed after n retries",
                          n |-> session.max_retries, cause |-> ""]))
    ELSE [session EXCEPT !.pc = "fetch", !.retry_count = 0]

\* Lines 118-140: the caller errors, the conversion of the dict operations
\* (UpdateOperation.__init__ rejects an unknown type) and the first test of
\* the while loop, which fails at once for a negative max_retries.
Enter(session) ==
    IF session.page_id \in {"", "None", "int"}
    THEN Finished(session, Raised(Exc("ValueError", "Valid page_id is required")))
    ELSE IF session.operations = <<>>
    THEN Finished(session, Raised(Exc("ValueError", "At least one operation is required")))
    ELSE IF ~session.has_client
    THEN Finished(session,
                  Raised(Exc("ValueError", "Confluence client is required for page updates")))
    ELSE IF \E k \in 1..Len(session.operations) :
                session.operations[k].operation_type \notin valid_operation_types
    THEN Finished(session, Raised(Exc("ValueError", "Unknown operation type")))
    ELSE IF ~(0 <= session.max_retries)
    THEN Finished(session,
                  Raised([cls |-> "RuntimeError", msg |-> "Page update failed after n retries",
                          n |-> session.max_retries, cause |-> ""]))
    ELSE [session EXCEPT !.pc = "fetch", !.retry_count = 0]

\* A variant of OnException whose retry test is `retry_count <= max_retries`.
OnExceptionOneMore(session, e) ==
    IF IsValueError(e.cls)
    THEN IF HasConflict(e.msg) /\ session.auto_retry_on_conflict
         THEN IF session.retry_count <= session.max_retries
              THEN [session EXCEPT !.retry_count = @ + 1, !.pc = "fetch"]
              ELSE Finished(session,
                       Raised([cls |-> "RuntimeError",
                               msg |-> "Page update failed after n retries",
                               n |-> session.max_retries, cause |-> e.cls]))
         ELSE Finished(session, Raised(e))
    ELSE Finished(session,
             Raised([cls |-> "RuntimeError", msg |-> "Page update failed",
                     n |-> -1, cause |-> e.cls]))

\* Lines 223-238: the handlers of the try, for an exception e raised by a
\* client call or by the validation.
OnException(session, e) ==
    IF IsValueError(e.cls)
    THEN IF HasConflict(e.msg) /\ session.auto_retry_on_conflict
         THEN IF session.retry_count < session.max_retries
              THEN [session EXCEPT !.retry_count = @ + 1, !.pc = "fetch"]
              ELSE Finished(session,
                       Raised([cls |-> "RuntimeError",
                               msg |-> "Page update failed after n retries",
                               n |-> session.max_retries, cause |-> e.cls]))
         ELSE Finished(session, Raised(e))
    ELSE Finished(session,
             Raised([cls |-> "RuntimeError", msg |-> "Page update failed",
                     n |-> -1, cause |-> e.cls]))

\* ADFWriter._parse_page_to_adf for a page that carries its ADF body.
ParsePageToAdf(page_data) == ParseDocument(page_data.body)

\* ADFWriter._create_backup: backup_documents[backup_id] = deepcopy(document),
\* the id made of the page id and the second of the clock.
CreateBackup(backups, backup_id, adf_document) ==
    {b \in backups : b.id # backup_id} \cup {[id |-> backup_id, document |-> adf_document]}

\* A variant of AfterFetch that, on a retry, keeps the page and the document
\* of the attempt before.
AfterFetchStale(session, current_page, clock) ==
    [session EXCEPT
        !.current_page = IF session.retry_count > 0 THEN @ ELSE current_page,
        !.adf_document = IF session.retry_count > 0 THEN @
                         ELSE ParsePageToAdf(current_page),
        !.backup_id = IF session.create_backup THEN clock ELSE -1,
        !.applied_operations = <<>>,
        !.i = 1,
        !.validation_result = "None",
        !.trail = <<IF session.retry_count > 0 THEN session.adf_document
                    ELSE ParsePageToAdf(current_page)>>,
        !.pc = "apply"]

\* Lines 144-155: the page came back; parse it, back it up, start the batch.
AfterFetch(session, current_page, clock) ==
    [session EXCEPT
        !.current_page = current_page,
        !.adf_document = ParsePageToAdf(current_page),
        !.backup_id = IF session.create_backup THEN clock ELSE -1,
        !.applied_operations = <<>>,
        !.i = 1,
        !.validation_result = "None",
        !.trail = <<ParsePageToAdf(current_page)>>,
        !.pc = "apply"]

\* A variant of AfterOperation that leaves the loop at the first operation
\* that fails.
AfterOperationAborting(session) ==
    LET operation == session.operations[session.i]
        r == ApplyOperation(session.adf_document, operation)
    IN [session EXCEPT
           !.adf_document = r.content,
           !.applied_operations =
               Append(@, [index |-> session.i - 1,
                          operation_type |-> operation.operation_type,
                          success |-> r.success,
                          reason |-> r.reason]),
           !.i = @ + 1,
           !.trail = Append(@, r.content),
           !.pc = IF session.i = Len(session.operations) \/ ~r.success
                  THEN "validate" ELSE "apply"]

\* A variant of AfterOperation that searches the document as it was fetched
\* and applies what it finds to the document as it is now.
AfterOperationSearchingFetched(session) ==
    LET operation == session.operations[session.i]
        found == FindElements(session.trail[1], operation.target_criteria)
        r == ApplyToElements(session.adf_document, found.results, operation, 0)
        success == ~found.raised /\ r.count > 0
    IN [session EXCEPT
           !.adf_document = r.content,
           !.applied_operations =
               Append(@, [index |-> session.i - 1,
                          operation_type |-> operation.operation_type,
                          success |-> success,
                          reason |-> IF success THEN ""
                                     ELSE IF found.raised THEN "Search criteria are required"
                                     ELSE "No matching elements found"]),
           !.i = @ + 1,
           !.trail = Append(@, r.content),
           !.pc = IF session.i = Len(session.operations) THEN "validate" ELSE "apply"]

\* Lines 156-183: one turn of the loop over the operations.
AfterOperation(session) ==
    LET operation == session.operations[session.i]
        r == ApplyOperation(session.adf_document, operation)
    IN [session EXCEPT
           !.adf_document = r.content,
           !.applied_operations =
               Append(@, [index |-> session.i - 1,
                          operation_type |-> operation.operation_type,
                          success |-> r.success,
                          reason |-> r.reason]),
           !.i = @ + 1,
           !.trail = Append(@, r.content),
           !.pc = IF session.i = Len(session.operations) THEN "validate" ELSE "apply"]

\* validate_document returns a bool, so line 189 takes the isinstance(bool)
\* branch, which only logs; the dict branch of lines 192-197, which restores
\* the backup and raises, is for a validator that returns a mapping.
ResultIsMapping == FALSE

ValidationRaises(validation_result) == ResultIsMapping /\ validation_result = "False"

\* Lines 186-197
AfterValidation(session) ==
    LET validation_result ==
            IF ~session.validate_before_update THEN "None"
            ELSE IF ValidateDocument(ToDict(session.adf_document)) THEN "True"
            ELSE "False"
        validated == [session EXCEPT !.validation_result = validation_result]
    IN IF ValidationRaises(validation_result)
       THEN OnException(validated, Exc("ValueError", "Invalid ADF structure after operations"))
       ELSE [validated EXCEPT !.pc = "write"]

RECURSIVE CountSuccess(_)
CountSuccess(applied) ==
    IF applied = <<>> THEN 0
    ELSE (IF Head(applied).success THEN 1 ELSE 0) + CountSuccess(Tail(applied))

\* Lines 210-221: the dictionary the call returns.
Success(session) ==
    Finished(session,
        Returned([success |-> TRUE,
                  applied_operations |-> session.applied_operations,
                  operations_count |-> Len(session.applied_operations),
                  successful_operations |-> CountSuccess(session.applied_operations),
                  validation_result |-> session.validation_result,
                  backup_id |-> session.backup_id,
                  retry_count |-> session.retry_count]))

Logged(session, call) == [session EXCEPT !.calls = Append(@, call)]

------------------------------------------------------------------------------
(* The host.  server.pages[v] is the raw document of version v, and        *)
(* server.writes[v] tells who wrote it, through which API, and the body    *)
(* that was sent.                                                          *)

Version == Len(server.pages)

CurrentPage == [version |-> Version, body |-> server.pages[Version]]

\* The page a storage-format write leaves: _update_page_storage_format sends
\* str() of the ADF dict as storage markup, which reads back as a paragraph
\* of plain text.
StorageBody(body) == RawDoc(<< Para(<< Text(<<"{", "}">>, <<>>) >>) >>)

Accept(body, by, via) ==
    [pages |-> Append(server.pages, IF via = "storage" THEN StorageBody(body) ELSE body),
     writes |-> Append(server.writes, [by |-> by, via |-> via, sent |-> body])]

\* The edit of another user: the next document of the cycle.
OtherEdit(body) ==
    CASE body.content = Doc1 -> RawDoc(Doc2)
      [] body.content = Doc2 -> RawDoc(Doc3)
      [] OTHER -> RawDoc(Doc1)

------------------------------------------------------------------------------
(* Spec: one session against a client that answers from the host or fails. *)

Call(s) ==
    /\ sess[s].pc = "idle"
    /\ \E page_id \in PageIds, operations \in Batches, has_client \in BOOLEAN,
          validate_before_update \in BOOLEAN, create_backup \in BOOLEAN,
          auto_retry_on_conflict \in BOOLEAN, max_retries \in -1..MaxRetries :
          sess' = [sess EXCEPT ![s] =
                      Enter([IdleSession EXCEPT
                                !.page_id = page_id,
                                !.operations = operations,
                                !.has_client = has_client,
                                !.validate_before_update = validate_before_update,
                                !.create_backup = create_backup,
                                !.auto_retry_on_conflict = auto_retry_on_conflict,
                                !.max_retries = max_retries])]
    /\ UNCHANGED <<server, backup_documents, now, doc, derived, last, finder, validator, cloned>>

\* get_page_adf returns the current page.  The clock is read by
\* _create_backup alone, so it is advanced where it is read.
Fetch(s) ==
    /\ sess[s].pc = "fetch"
    /\ \E clock \in now..Min(now + 1, MaxClock) :
          /\ sess[s].create_backup \/ clock = now
          /\ now' = clock
          /\ sess' = [sess EXCEPT ![s] =
                         AfterFetch(Logged(@, ClientCall("get", NoExc, Version, CurrentPage.body)),
                                    CurrentPage, clock)]
          /\ backup_documents' =
                 IF sess[s].create_backup
                 THEN [backup_documents EXCEPT ![s] =
                          CreateBackup(@, clock, ParsePageToAdf(CurrentPage))]
                 ELSE backup_documents
    /\ UNCHANGED <<server, doc, derived, last, finder, validator, cloned>>

\* get_page_adf raises.
FetchFails(s) ==
    /\ sess[s].pc = "fetch"
    /\ \E e \in ClientErrors :
          sess' = [sess EXCEPT ![s] =
                      OnException(Logged(@, ClientCall("get", e, 0, EMPTY_ADF_DOCUMENT)), e)]
    /\ UNCHANGED <<server, backup_documents, now, doc, derived, last, finder, validator, cloned>>

ApplyStep(s) ==
    /\ sess[s].pc = "apply"
    /\ sess' = [sess EXCEPT ![s] = AfterOperation(@)]
    /\ UNCHANGED <<server, backup_documents, now, doc, derived, last, finder, validator, cloned>>

Validate(s) ==
    /\ sess[s].pc = "validate"
    /\ sess' = [sess EXCEPT ![s] = AfterValidation(@)]
    /\ UNCHANGED <<server, backup_documents, now, doc, derived, last, finder, validator, cloned>>

\* update_page_adf is accepted: the expected version is the host's.
WriteBack(s) ==
    /\ sess[s].pc = "write"
    /\ sess[s].current_page.version = Version
    /\ LET body == ToDict(sess[s].adf_document) IN
       /\ server' = Accept(body, s, "adf")
       /\ sess' = [sess EXCEPT ![s] =
                      Success(Logged(@, ClientCall("update", NoExc,
                                                   sess[s].current_page.version, body)))]
    /\ UNCHANGED <<backup_documents, now, doc, derived, last, finder, validator, cloned>>

\* update_page_adf raises: a conflict (for a stale version, or because the
\* client says so), or another failure.
WriteBackFails(s) ==
    /\ sess[s].pc = "write"
    /\ \E e \in ClientErrors :
          sess' = [sess EXCEPT ![s] =
                      OnException(Logged(@, ClientCall("update", e,
                                                       sess[s].current_page.version,
                                                       ToDict(sess[s].adf_document))), e)]
    /\ UNCHANGED <<server, backup_documents, now, doc, derived, last, finder, validator, cloned>>

\* Another user saves the page.
OtherWriter ==
    /\ Version < MaxVersion
    /\ server' = Accept(OtherEdit(server.pages[Version]), 0, "other")
    /\ UNCHANGED <<sess, backup_documents, now, doc, derived, last, finder, validator, cloned>>

\* ADFDocument._build_element_map: one ElementPath per node, keyed by its path.
ElementMap(content) ==
    LET walk == WalkFrom(content, <<>>, 1) IN
    {[path |-> walk[i],
      type |-> GetNodeByPath(content, walk[i]).type,
      text_content |-> GetNodeByPath(content, walk[i]).text] : i \in 1..Len(walk)}

\* What a mutator of the document leaves in _raw_data and _element_map:
\* `self._raw_data = self.to_dict()` and `self._build_element_map()`.
Refreshed(content) == [raw_data |-> ToDict(content), element_map |-> ElementMap(content)]

\* No clone() yet.
NoClone == [made |-> FALSE, content |-> <<>>, derived |-> Refreshed(<<>>)]

\* ADFFinder.__init__: an empty search_cache; searches counts the calls of
\* find_elements on it.
NewFinder == [search_cache |-> [key \in {} |-> <<>>], searches |-> 0]

\* The last direct call: the method, its arguments, the model content before
\* it, what it returned (count for the writer's methods, returned for the
\* document's) and the number of direct calls so far.
NoDirectCall ==
    [method |-> "", path |-> <<>>, text |-> <<>>, before |-> <<>>, count |-> 0,
     calls |-> 0, operation |-> Op("", EmptyCrit, None, <<>>, <<>>), index |-> 0,
     node |-> None, returned |-> "", derived_before |-> Refreshed(<<>>),
     results |-> <<>>, cache_results |-> FALSE, finder_before |-> NewFinder]

Init ==
    /\ \E d \in Docs : server = [pages |-> <<RawDoc(d)>>, writes |-> <<[by |-> 0, via |-> "init", sent |-> RawDoc(d)]>>]
    /\ sess = [s \in Sessions |-> IdleSession]
    /\ backup_documents = [s \in Sessions |-> {}]
    /\ now = 0
    /\ doc = <<>>
    /\ derived = Refreshed(<<>>)
    /\ last = NoDirectCall
    /\ finder = NewFinder
    /\ validator = NewValidator
    /\ cloned = NoClone

Next ==
    \/ Call(1)
    \/ Fetch(1)
    \/ FetchFails(1)
    \/ ApplyStep(1)
    \/ Validate(1)
    \/ WriteBack(1)
    \/ WriteBackFails(1)
    \/ OtherWriter

Spec == Init /\ [][Next]_vars

------------------------------------------------------------------------------
(* SpecConc: two sessions through ConfluenceClient on the Cloud/OAuth path *)
(* against a host that checks the version of every ADF write.              *)

\* ConfluenceClient._update_page_storage_format: Confluence.update_page of
\* the library, which reads the current version itself and sends no expected
\* one; whatever it raises is raised again.
UpdatePageStorageFormat(library_ok) ==
    IF library_ok THEN [exc |-> NoExc, via |-> "storage"]
    ELSE [exc |-> HttpError, via |-> ""]

\* ConfluenceClient.update_page_adf with is_cloud, auth_type "oauth" and a
\* version_number, for the status of the response to the PUT.  The raises
\* of lines 291-296 are inside the try: `except requests.HTTPError` does not
\* match them, `except Exception` does.  The HTTPError of raise_for_status
\* carries a response that is falsy (not ok), so line 309 raises it again.
UpdatePageAdf(status_code, library_ok) ==
    LET raised ==
            CASE status_code = 401 -> AuthError
              [] status_code = 403 ->
                    Exc("MCPAtlassianAuthenticationError",
                        "Confluence API access forbidden - check permissions")
              [] status_code = 409 -> ConflictError
              [] status_code >= 400 -> HttpError
              [] OTHER -> NoExc
    IN IF raised = NoExc THEN [exc |-> NoExc, via |-> "adf"]
       ELSE IF raised.cls = "HTTPError" THEN [exc |-> raised, via |-> ""]
       ELSE UpdatePageStorageFormat(library_ok)

ConcBatches ==
    { << UpdateText(TextCrit(ta), tx) >>,
      << UpdateText(TextCrit(tb), ta), UpdateText(TypeCrit("heading"), tx) >> }

CallConc(s) ==
    /\ sess[s].pc = "idle"
    /\ \E operations \in ConcBatches, auto_retry_on_conflict \in BOOLEAN,
          max_retries \in 0..1 :
          sess' = [sess EXCEPT ![s] =
                      Enter([IdleSession EXCEPT
                                !.page_id = "123456",
                                !.operations = operations,
                                !.has_client = TRUE,
                                !.auto_retry_on_conflict = auto_retry_on_conflict,
                                !.max_retries = max_retries])]
    /\ UNCHANGED <<server, backup_documents, now, doc, derived, last, finder, validator, cloned>>

\* The answers of the host to a PUT that expects version_number: the write is
\* accepted when the version is the current one and is a conflict when it is
\* not; the credentials may be refused and the host may fail.
PutResponses(version_number) ==
    (IF version_number = Version THEN {200} ELSE {409}) \cup {401, 403, 500}

UpdatePage(s) ==
    /\ sess[s].pc = "write"
    /\ \E status_code \in PutResponses(sess[s].current_page.version),
          library_ok \in BOOLEAN :
          LET out == UpdatePageAdf(status_code, library_ok)
              body == ToDict(sess[s].adf_document)
              call == [ClientCall("update", out.exc, sess[s].current_page.version, body)
                          EXCEPT !.status_code = status_code, !.via = out.via]
          IN /\ server' = IF out.via = "" THEN server ELSE Accept(body, s, out.via)
             /\ sess' = [sess EXCEPT ![s] =
                            IF out.exc = NoExc THEN Success(Logged(@, call))
                            ELSE OnException(Logged(@, call), out.exc)]
    /\ UNCHANGED <<backup_documents, now, doc, derived, last, finder, validator, cloned>>

NextConc ==
    \E s \in Sessions :
        \/ CallConc(s)
        \/ Fetch(s)
        \/ ApplyStep(s)
        \/ Validate(s)
        \/ UpdatePage(s)

SpecConc == Init /\ [][NextConc]_vars

------------------------------------------------------------------------------
(* SpecDoc: the methods of the writer and of the document called directly  *)
(* on a document of their own, as the unit tests call them.                *)

\* The paths of the direct calls: lists of indices, resolvable or not.
DirectPaths == UNION {[1..n -> 0..MaxIndex] : n \in 1..MaxPath}

\* A paragraph whose text nodes carry two marks each, the second one two of
\* the same type.
Doc4 ==
    << Para(<< Text(ta, <<Mark("strong"), Mark("em")>>),
               Text(tb, <<Mark("strong"), Mark("strong")>>) >>) >>

\* A paragraph given with "content": null, before a paragraph with a text.
Doc5 ==
    << [Para(<<>>) EXCEPT !.content_field = "null"], Para(<< Text(ta, <<>>) >>) >>

\* A rule, then a paragraph with a hard break before its text.
Doc6 ==
    << Node("rule", <<>>, <<>>, {}, <<>>),
       Para(<< Node("hardBreak", <<>>, <<>>, {}, <<>>), Text(ta, <<Mark("em")>>) >>) >>

DirectDocs == Docs \cup {Doc4, Doc5, Doc6}

\* Raw input that ADFDocumentModel.model_validate rejects: a wrong version,
\* a wrong type, a content that is no array, a node of an unknown type.
UnparseableInputs ==
    { [RawDoc(Doc1) EXCEPT !.version = 2],
      [RawDoc(Doc1) EXCEPT !.type = "page"],
      [RawDoc(<<>>) EXCEPT !.content_field = "string"],
      RawDoc(<< Node("bogus", <<>>, <<>>, {}, <<>>) >>) }

\* ADFDocument(data)
NewDocument ==
    /\ last.calls < MaxDirectCalls
    /\ \E data \in {RawDoc(d) : d \in DirectDocs} \cup {EMPTY_ADF_DOCUMENT}
                      \cup UnparseableInputs :
          /\ doc' = ParseDocument(data)
          /\ derived' = [raw_data |-> data, element_map |-> ElementMap(ParseDocument(data))]
          /\ last' = [NoDirectCall EXCEPT !.method = "ADFDocument", !.before = doc,
                                          !.derived_before = derived,
                                          !.calls = last.calls + 1]
    /\ UNCHANGED <<server, sess, backup_documents, now, finder, validator, cloned>>

\* writer._apply_update_text_operation(adf_document, element_result, operation)
UpdateTextAt ==
    /\ last.calls < MaxDirectCalls
    /\ \E path \in DirectPaths, new_text \in {ta, tx} :
          LET r == ApplyUpdateTextOperation(doc, [path |-> path],
                                            UpdateText(TypeCrit("paragraph"), new_text))
          IN /\ doc' = r.content
             /\ last' = [NoDirectCall EXCEPT
                            !.method = "update_text", !.path = path, !.text = new_text,
                            !.before = doc, !.derived_before = derived,
                            !.count = r.count, !.calls = last.calls + 1]
    /\ UNCHANGED <<server, sess, backup_documents, now, derived, finder, validator, cloned>>

\* The new_content of the direct replace calls.
ReplaceNodes ==
    { Text(tx, <<>>),
      Text(tx, <<Mark("em")>>),
      Heading("2", <<>>),
      Node("paragraph", <<>>, <<>>, {<<"k", "v">>}, <<>>) }

\* writer._apply_replace_operation(adf_document, element_result, operation)
\* for an element_result the finder gives: a node of the document, dumped.
ReplaceAt ==
    /\ last.calls < MaxDirectCalls
    /\ \E path \in DirectPaths, new_content \in ReplaceNodes,
          preserve_attributes \in BOOLEAN, preserve_marks \in BOOLEAN :
          LET operation == [Op("replace", TypeCrit("text"), new_content, <<>>, <<>>)
                               EXCEPT !.preserve_attributes = preserve_attributes,
                                      !.preserve_marks = preserve_marks]
              r == ApplyReplaceOperation(doc, SearchResult(doc, path), operation)
          IN /\ GetNodeByPath(doc, path) # None
             /\ doc' = r.content
             /\ derived' = IF r.count = 1 THEN Refreshed(r.content) ELSE derived
             /\ last' = [NoDirectCall EXCEPT
                            !.method = "replace", !.path = path, !.operation = operation,
                            !.before = doc, !.derived_before = derived,
                            !.count = r.count, !.calls = last.calls + 1]
    /\ UNCHANGED <<server, sess, backup_documents, now, finder, validator, cloned>>

\* writer._apply_insert_before_operation and _apply_insert_after_operation
\* for an element_result the finder gives.
InsertAt ==
    /\ last.calls < MaxDirectCalls
    /\ \E path \in DirectPaths, new_content \in {Text(tx, <<>>), Heading("2", <<>>)},
          operation_type \in {"insert_before", "insert_after"} :
          LET operation == Op(operation_type, TypeCrit("text"), new_content, <<>>, <<>>)
              r == IF operation_type = "insert_before"
                   THEN ApplyInsertBeforeOperation(doc, SearchResult(doc, path), operation)
                   ELSE ApplyInsertAfterOperation(doc, SearchResult(doc, path), operation)
          IN /\ GetNodeByPath(doc, path) # None
             /\ doc' = r.content
             /\ derived' = IF r.count = 1 THEN Refreshed(r.content) ELSE derived
             /\ last' = [NoDirectCall EXCEPT
                            !.method = operation_type, !.path = path,
                            !.operation = operation,
                            !.before = doc, !.derived_before = derived,
                            !.count = r.count, !.calls = last.calls + 1]
    /\ UNCHANGED <<server, sess, backup_documents, now, finder, validator, cloned>>

NextDoc ==
    \/ NewDocument
    \/ UpdateTextAt
    \/ ReplaceAt
    \/ InsertAt

SpecDoc == Init /\ [][NextDoc]_vars

------------------------------------------------------------------------------
(* SpecPath: the path-addressed methods of ADFDocument, add_paragraph and  *)
(* clear, called on a document of their own with paths that resolve and    *)
(* paths that do not.                                                      *)

\* The new_element of the direct calls; the last is of no known type.
NewElements == {Text(tx, <<>>), Heading("7", <<>>), Node("bogus", <<>>, <<>>, {}, <<>>)}

\* What a mutator gave back: its boolean, or the error that left it.
ReturnOf(r) == IF r.raised THEN "ValidationError" ELSE IF r.ok THEN "True" ELSE "False"

\* ADFDocument._get_element_at_path(path)
GetNodeAt ==
    /\ last.calls < MaxDirectCalls
    /\ \E path \in DirectPaths \cup {<<>>} :
          LET node == GetNodeByPath(doc, path) IN
          last' = [NoDirectCall EXCEPT
                      !.method = "get_node_at", !.path = path,
                      !.node = IF node = TypeErrorRaised THEN None ELSE node,
                      !.returned = IF node = TypeErrorRaised THEN "TypeError"
                                   ELSE IF node = None THEN "None" ELSE "node",
                      !.before = doc, !.derived_before = derived,
                      !.calls = last.calls + 1]
    /\ UNCHANGED <<server, sess, backup_documents, now, doc, derived, finder, validator, cloned>>

\* ADFDocument._replace_element_at_path(path, new_element)
ReplaceNodeAt ==
    /\ last.calls < MaxDirectCalls
    /\ \E path \in DirectPaths \cup {<<>>}, new_element \in NewElements :
          LET r == ReplaceElementAtPath(doc, path, new_element) IN
          /\ doc' = r.content
          /\ derived' = IF r.ok THEN Refreshed(r.content) ELSE derived
          /\ last' = [NoDirectCall EXCEPT
                         !.method = "replace_node_at", !.path = path,
                         !.node = new_element, !.returned = ReturnOf(r),
                         !.before = doc, !.derived_before = derived,
                         !.calls = last.calls + 1]
    /\ UNCHANGED <<server, sess, backup_documents, now, finder, validator, cloned>>

\* ADFDocument._delete_element_at_path(path)
DeleteNodeAt ==
    /\ last.calls < MaxDirectCalls
    /\ \E path \in DirectPaths \cup {<<>>} :
          LET r == DeleteElementAtPath(doc, path) IN
          /\ doc' = r.content
          /\ derived' = IF r.ok THEN Refreshed(r.content) ELSE derived
          /\ last' = [NoDirectCall EXCEPT
                         !.method = "delete_node_at", !.path = path,
                         !.returned = ReturnOf(r),
                         !.before = doc, !.derived_before = derived,
                         !.calls = last.calls + 1]
    /\ UNCHANGED <<server, sess, backup_documents, now, finder, validator, cloned>>

\* ADFDocument._insert_element_at_path(parent_path, index, new_element)
InsertNodeAt ==
    /\ last.calls < MaxDirectCalls
    /\ \E parent_path \in DirectPaths \cup {<<>>}, index \in {-1, 999} \cup (0 .. MaxIndex + 1), new_element \in NewElements :
          LET r == InsertElementAtPath(doc, parent_path, index, new_element) IN
          /\ doc' = r.content
          /\ derived' = IF r.ok THEN Refreshed(r.content) ELSE derived
          /\ last' = [NoDirectCall EXCEPT
                         !.method = "insert_node_at", !.path = parent_path,
                         !.index = index, !.node = new_element,
                         !.returned = ReturnOf(r),
                         !.before = doc, !.derived_before = derived,
                         !.calls = last.calls + 1]
    /\ UNCHANGED <<server, sess, backup_documents, now, finder, validator, cloned>>

\* ADFDocument.add_paragraph(text): appended to an empty document, and
\* through update_element's insert_after behind the last node otherwise.
AddParagraph ==
    /\ last.calls < MaxDirectCalls
    /\ \E text \in {<<>>, tx} :
          \* DEFAULT_PARAGRAPH, with the text node put into it
          LET paragraph == IF text = <<>>
                           THEN [Para(<<>>) EXCEPT !.content_field = "list"]
                           ELSE Para(<< Text(text, <<>>) >>)
          IN
          /\ doc' = InsertInto(doc, Len(doc), paragraph)
          /\ derived' = Refreshed(doc')
          /\ last' = [NoDirectCall EXCEPT
                         !.method = "add_paragraph", !.text = text,
                         !.returned = "True",
                         !.before = doc, !.derived_before = derived,
                         !.calls = last.calls + 1]
    /\ UNCHANGED <<server, sess, backup_documents, now, finder, validator, cloned>>

\* ADFDocument.clear()
Clear ==
    /\ last.calls < MaxDirectCalls
    /\ doc' = <<>>
    /\ derived' = [raw_data |-> EMPTY_ADF_DOCUMENT, element_map |-> {}]
    /\ last' = [NoDirectCall EXCEPT
                   !.method = "clear",
                   !.before = doc, !.derived_before = derived,
                   !.calls = last.calls + 1]
    /\ UNCHANGED <<server, sess, backup_documents, now, finder, validator, cloned>>

NextPath ==
    \/ NewDocument
    \/ GetNodeAt
    \/ ReplaceNodeAt
    \/ DeleteNodeAt
    \/ InsertNodeAt
    \/ AddParagraph
    \/ Clear

SpecPath == Init /\ [][NextPath]_vars

------------------------------------------------------------------------------
(* SpecFind: find_element_in_adf, a search by a finder of its own, on a    *)
(* document just constructed.                                              *)

\* The json_path strings of the searches: "$.content[0]",
\* "$.content[0].content[1]", "$.content[1]", "$.content[9]",
\* "$.invalid[999]", "$[0]", "$[0].content[1]", "$[0].type" and "".
JsonPaths ==
    { <<"$", ".", "content", "[", "0", "]">>,
      <<"$", ".", "content", "[", "0", "]", ".", "content", "[", "1", "]">>,
      <<"$", ".", "content", "[", "1", "]">>,
      <<"$", ".", "content", "[", "9", "]">>,
      <<"$", ".", "invalid", "[", "9", "9", "9", "]">>,
      <<"$", "[", "0", "]">>,
      <<"$", "[", "0", "]", ".", "content", "[", "1", "]">>,
      <<"$", "[", "0", "]", ".", "type">>,
      <<>> }

\* The criteria of the searches: every set of the six keys with a value
\* that selects; one key with each of the paths, texts, types and indexes;
\* a key with an empty value next to a key below it; the criteria of
\* test_handle_malformed_criteria; and the empty criteria.
FindCriteria ==
    LET All == [Criteria({}, ta, "paragraph") EXCEPT
                   !.json_path = <<"$", "[", "0", "]">>,
                   !.attributes = {<<"level", "1">>},
                   !.marks = <<"strong">>, !.index = 0]
        Keys == {"json_path", "text", "node_type", "attributes", "marks", "index"}
    IN {[All EXCEPT !.keys = K] : K \in SUBSET Keys}
       \cup {[Criteria({"json_path"}, <<>>, "") EXCEPT !.json_path = p] : p \in JsonPaths}
       \cup {[Criteria({"json_path", "text"}, ta, "") EXCEPT !.json_path = p] :
                 p \in JsonPaths}
       \cup {TextCrit(t) : t \in {ta, tb, tx, <<"A">>}}
       \cup {TypeCrit(t) : t \in {"text", "heading", "paragraph", "table"}}
       \cup {[Criteria({"index"}, <<>>, "") EXCEPT !.index = i] : i \in {-1, 0, 1, 5}}
       \cup {[Criteria({"marks"}, <<>>, "") EXCEPT !.marks = <<"em">>],
             [Criteria({"marks"}, <<>>, "") EXCEPT !.marks = <<"strong", "em">>],
             [Criteria({"attributes"}, <<>>, "") EXCEPT !.attributes = {<<"level", "7">>}]}
       \cup {Criteria({"text", "node_type"}, <<>>, "paragraph"),
             [Criteria({"attributes", "marks"}, <<>>, "") EXCEPT !.marks = <<"em">>],
             [Criteria({"marks", "index"}, <<>>, "") EXCEPT !.index = 1]}
       \cup {Criteria({"invalid_key"}, <<>>, ""),
             [Criteria({"text"}, <<>>, "") EXCEPT !.mistyped = {"text"}],
             [Criteria({"node_type"}, <<>>, "") EXCEPT !.mistyped = {"node_type"}],
             [Criteria({"attributes"}, <<>>, "") EXCEPT !.mistyped = {"attributes"}],
             [Criteria({"marks"}, <<>>, "") EXCEPT !.mistyped = {"marks"}]}

\* find_element_in_adf(adf_document, criteria, limit=limit); limit 0 stands
\* for None.
FindElementInAdf ==
    /\ last.calls < MaxDirectCalls
    /\ \E criteria \in FindCriteria, limit \in {-1, 0, 1, 2} :
          LET r == FindElements(doc, criteria) IN
          last' = [NoDirectCall EXCEPT
                      !.method = "find_elements",
                      !.operation = Op("", criteria, None, <<>>, <<>>),
                      !.index = limit,
                      !.results = Truncated(r.results, limit),
                      !.returned = IF r.raised THEN "ValueError" ELSE "list",
                      !.before = doc, !.derived_before = derived,
                      !.calls = last.calls + 1]
    /\ UNCHANGED <<server, sess, backup_documents, now, doc, derived, finder, validator, cloned>>

NextFind ==
    \/ NewDocument
    \/ FindElementInAdf

SpecFind == Init /\ [][NextFind]_vars

------------------------------------------------------------------------------
(* SpecDocFind: ADFDocument.find_elements called on a document just        *)
(* constructed, with the criteria of the finder's searches.                *)

\* document.find_elements(criteria)
DocumentFind ==
    /\ last.calls < MaxDirectCalls
    /\ \E criteria \in FindCriteria :
          LET r == DocumentFindElements(doc, criteria) IN
          last' = [NoDirectCall EXCEPT
                      !.method = "document.find_elements",
                      !.operation = Op("", criteria, None, <<>>, <<>>),
                      !.results = r.results,
                      !.returned = IF r.raised THEN "AttributeError" ELSE "list",
                      !.before = doc, !.derived_before = derived,
                      !.calls = last.calls + 1]
    /\ UNCHANGED <<server, sess, backup_documents, now, doc, derived, finder, validator, cloned>>

NextDocFind ==
    \/ NewDocument
    \/ DocumentFind

SpecDocFind == Init /\ [][NextDocFind]_vars

------------------------------------------------------------------------------
(* SpecCache: one ADFFinder kept across searches of a document that is     *)
(* mutated, or replaced by another, between them.                          *)

MaxSearches == 2

\* The criteria of the searches on the kept finder.
CacheCriteria ==
    { TextCrit(ta), TypeCrit("text"),
      [Criteria({"node_type"}, ta, "text") EXCEPT !.index = 1],
      EmptyCrit }

\* finder.find_elements(criteria, document, limit=limit, cache_results=...)
FinderFind ==
    /\ finder.searches < MaxSearches
    /\ \E criteria \in CacheCriteria, limit \in {-1, 0, 1}, cache_results \in BOOLEAN :
          LET r == FinderFindElements(finder.search_cache, doc, criteria, limit,
                                      cache_results)
          IN /\ finder' = [search_cache |-> r.search_cache,
                           searches |-> finder.searches + 1]
             /\ last' = [NoDirectCall EXCEPT
                            !.method = "finder.find_elements",
                            !.operation = Op("", criteria, None, <<>>, <<>>),
                            !.index = limit,
                            !.cache_results = cache_results,
                            !.results = r.results,
                            !.returned = IF r.raised THEN "ValueError" ELSE "list",
                            !.before = doc, !.derived_before = derived,
                            !.finder_before = finder,
                            !.calls = last.calls]
    /\ UNCHANGED <<server, sess, backup_documents, now, doc, derived, validator, cloned>>

\* finder.clear_cache()
ClearCache ==
    /\ finder' = [finder EXCEPT !.search_cache = [key \in {} |-> <<>>]]
    /\ last' = [NoDirectCall EXCEPT !.method = "clear_cache",
                                    !.before = doc, !.derived_before = derived,
                                    !.finder_before = finder,
                                    !.calls = last.calls]
    /\ UNCHANGED <<server, sess, backup_documents, now, doc, derived, validator, cloned>>

NextCache ==
    \/ NewDocument
    \/ DeleteNodeAt
    \/ UpdateTextAt
    \/ FinderFind
    \/ ClearCache

SpecCache == Init /\ [][NextCache]_vars

------------------------------------------------------------------------------
(* SpecValidate: one ADFValidator and the calls of validate_document,      *)
(* validate_with_details and validate_node on it, one after the other.  A  *)
(* step of the walk is one call of validate_node on a child, or the end of *)
(* one loop of _validate_content_array.                                    *)

\* A dict node with the keys whose values are given.
DictNode(type, text, marks, attrs, content) ==
    [type |-> type, text |-> text, marks |-> marks, attrs |-> attrs, content |-> content,
     has |-> {key \in {"text", "marks", "attrs", "content"} :
                 \/ key = "text" /\ text # <<>>
                 \/ key = "marks" /\ marks # <<>>
                 \/ key = "attrs" /\ attrs # {}
                 \/ key = "content" /\ content # <<>>},
     null |-> {}]

\* A dict document of the nodes, with the ids of its top-level nodes.
DictDoc(content, nodes) ==
    [version |-> 1, type |-> "doc", content_field |-> "list",
     content |-> content, nodes |-> nodes]

\* n paragraphs, each the only child of the one before, around the
\* innermost node, which is at depth n + 1 below the document.
Nested(n, innermost) ==
    DictDoc(<<1>>, [id \in 1..(n + 1) |->
                       IF id <= n THEN DictNode("paragraph", <<>>, <<>>, {}, <<id + 1>>)
                       ELSE innermost])

\* The dicts the validator is given.
ValidatorInputs ==
    LET text == DictNode("text", ta, <<>>, {}, <<>>)
        leaf == DictNode("paragraph", <<>>, <<>>, {}, <<>>)
        empty == [leaf EXCEPT !.has = {"content"}]
        paragraph == DictNode("paragraph", <<>>, <<>>, {}, <<2>>)
        One(node) == DictDoc(<<1>>, << node >>)
        many == {<<key, "v">> : key \in {
           "k01", "k02", "k03", "k04", "k05", "k06", "k07", "k08",
           "k09", "k10", "k11", "k12", "k13", "k14", "k15", "k16",
           "k17", "k18", "k19", "k20", "k21", "k22", "k23", "k24",
           "k25", "k26", "k27", "k28", "k29", "k30", "k31", "k32",
           "k33", "k34", "k35", "k36", "k37", "k38", "k39", "k40",
           "k41", "k42", "k43", "k44", "k45", "k46", "k47", "k48",
           "k49", "k50", "k51" }}
        long == [i \in 1..(MAX_TEXT_LENGTH + 1) |-> "a"]
    IN \* nesting around the limit
       { Nested(MAX_DEPTH - 1, text), Nested(MAX_DEPTH, text),
         Nested(MAX_DEPTH + 1, text), Nested(MAX_DEPTH + 4, text),
         Nested(MAX_DEPTH, leaf), Nested(MAX_DEPTH, empty), Nested(MAX_DEPTH + 1, leaf) }
       \cup \* a paragraph that holds itself; two that hold each other
       { DictDoc(<<1>>, << DictNode("paragraph", <<>>, <<>>, {}, <<1>>) >>),
         DictDoc(<<1>>, << paragraph, DictNode("paragraph", <<>>, <<>>, {}, <<3, 1>>), text >>) }
       \cup \* documents that are valid, some with warnings
       { DictDoc(<<>>, <<>>),
         DictDoc(<<1>>, << paragraph, text >>),
         One(DictNode("table", <<>>, <<>>, {}, <<>>)),
         One([DictNode("table", <<>>, <<>>, {}, <<>>) EXCEPT !.has = {"content"}]),
         One(DictNode("paragraph", <<>>, <<>>, many, <<>>)),
         One(DictNode("text", long, <<>>, {}, <<>>)),
         DictDoc(<<1>>, << DictNode("table", <<>>, <<>>, {}, <<2>>),
                          DictNode("tableRow", <<>>, <<>>, {}, <<3>>),
                          DictNode("tableCell", <<>>, <<>>, {}, <<>>) >>) }
       \cup \* documents with errors, some with warnings too
       { [DictDoc(<<1>>, << text >>) EXCEPT !.version = 2],
         [DictDoc(<<1>>, << text >>) EXCEPT !.type = "page"],
         [DictDoc(<<>>, <<>>) EXCEPT !.content_field = "unset"],
         [DictDoc(<<>>, <<>>) EXCEPT !.content_field = "null"],
         One(DictNode("bogus", <<>>, <<>>, {}, <<>>)),
         One(DictNode("", <<>>, <<>>, {}, <<>>)),
         One(DictNode("heading", <<>>, <<>>, {}, <<>>)),
         One(DictNode("heading", <<>>, <<>>, {<<"level", "7">>}, <<>>)),
         One(DictNode("heading", long, <<>>, {<<"level", "7">>}, <<>>)),
         One([DictNode("heading", <<>>, <<>>, {}, <<>>) EXCEPT
                 !.has = {"attrs"}, !.null = {"attrs"}]),
         One(DictNode("panel", <<>>, <<>>, many \cup {<<"panelType", "bogus">>}, <<>>)),
         One(DictNode("text", ta, <<Mark("link")>>, {}, <<>>)),
         One(DictNode("text", ta, <<Mark("strong"), Mark("bogus")>>, {}, <<>>)),
         One([DictNode("paragraph", <<>>, <<>>, {}, <<>>) EXCEPT
                 !.has = {"content"}, !.null = {"content"}]),
         DictDoc(<<1, 2>>, << DictNode("table", <<>>, <<>>, {}, <<2>>), text >>),
         DictDoc(<<1, 4>>, << DictNode("table", <<>>, <<>>, {}, <<2>>),
                             DictNode("tableRow", <<>>, <<>>, {}, <<3>>),
                             DictNode("paragraph", <<>>, <<>>, {}, <<>>),
                             DictNode("table", <<>>, <<>>, {}, <<>>) >>),
         DictDoc(<<1>>, << DictNode("extension", <<>>, <<>>,
                                    {<<"extensionType", "t">>}, <<>>) >>) }

\* The start of validate_document(document), under the name of the entry
\* point called: _reset_validation_state, and the checks of the root.
BeginValidateDocument(v, call, document) ==
    LET reset == [v EXCEPT
                     !.errors = <<>>, !.warnings = <<>>, !.current_depth = 0,
                     !.document = document, !.call = call, !.returned = "",
                     !.calls = @ + 1,
                     !.start = [errors |-> <<>>, warnings |-> <<>>, current_depth |-> 0],
                     !.held = IF v.result.given THEN v.result ELSE v.held,
                     !.result = NewValidator.result]
        root_error ==
            IF document.content_field = "unset" THEN "Missing required field: content"
            ELSE IF document.version # 1 THEN "invalid_version"
            ELSE IF document.type # "doc" THEN "invalid_root_type"
            ELSE IF document.content_field # "list" THEN "Content must be an array"
            ELSE ""
    IN IF root_error # ""
       THEN ValidationReturns(
                [reset EXCEPT !.errors = << ValidationError(<<>>, root_error, "error") >>],
                FALSE)
       ELSE [reset EXCEPT
                !.current_depth = 1,
                !.stack = << [kind |-> "array", owner |-> 0, path |-> <<>>,
                              children |-> document.content, i |-> 1] >>]

\* validator.validate_document(document)
ValidateDocumentCall ==
    /\ validator.stack = <<>>
    /\ validator.calls < MaxDirectCalls
    /\ \E document \in ValidatorInputs :
          validator' = BeginValidateDocument(validator, "validate_document", document)
    /\ UNCHANGED <<server, sess, backup_documents, now, doc, derived, last, finder, cloned>>

\* validator.validate_with_details(document)
ValidateWithDetailsCall ==
    /\ validator.stack = <<>>
    /\ validator.calls < MaxDirectCalls
    /\ \E document \in ValidatorInputs :
          validator' = BeginValidateDocument(validator, "validate_with_details", document)
    /\ UNCHANGED <<server, sess, backup_documents, now, doc, derived, last, finder, cloned>>

\* validator.validate_node(node, path) on a node of one of the dicts: no
\* reset; the walk starts from what the calls before have left.
ValidateNodeCall ==
    /\ validator.stack = <<>>
    /\ validator.calls < MaxDirectCalls
    /\ \E document \in ValidatorInputs, path \in {<<0>>} :
          \E id \in DOMAIN document.nodes \cap {1, 2} :
             validator' = [validator EXCEPT
                              !.document = document, !.call = "validate_node",
                              !.returned = "", !.calls = @ + 1,
                              !.start = [errors |-> validator.errors,
                                         warnings |-> validator.warnings,
                                         current_depth |-> validator.current_depth],
                              !.held = IF validator.result.given THEN validator.result
                                       ELSE validator.held,
                              !.result = NewValidator.result,
                              !.stack = << [kind |-> "direct", owner |-> 0, path |-> path,
                                            children |-> <<id>>, i |-> 1] >>]
    /\ UNCHANGED <<server, sess, backup_documents, now, doc, derived, last, finder, cloned>>

\* One step of the walk: validate_node on the next child of the loop that
\* runs, which starts the loop over the child's content when that is to be
\* walked; or the end of that loop, after which _validate_node_specific
\* looks at the node whose content it was.
ValidateStep ==
    /\ validator.stack # <<>>
    /\ LET v == validator
           top == v.stack[Len(v.stack)]
           below == SubSeq(v.stack, 1, Len(v.stack) - 1)
           Added(w, outcome) == [w EXCEPT !.errors = @ \o outcome.errors,
                                          !.warnings = @ \o outcome.warnings]
       IN IF top.i <= Len(top.children)
          THEN LET id == top.children[top.i]
                   node == v.document.nodes[id]
                   node_path == IF top.kind = "direct" THEN top.path
                                ELSE top.path \o <<top.i - 1>>
                   structure == ValidateNodeStructure(node, node_path, v.current_depth)
                   specific == ValidateNodeSpecificErrors(v.document, node, node_path)
                   checked == Added(v, structure)
                   advanced == below \o << [top EXCEPT !.i = @ + 1] >>
               IN validator' =
                     IF structure.descend
                     THEN [checked EXCEPT
                              !.current_depth = @ + 1,
                              !.stack = advanced \o
                                  << [kind |-> "array", owner |-> id, path |-> node_path,
                                      children |-> node.content, i |-> 1] >>]
                     ELSE IF ~structure.known THEN [checked EXCEPT !.stack = advanced]
                     ELSE IF specific.raised THEN ValidationReturns(checked, TRUE)
                     ELSE [Added(checked, specific) EXCEPT !.stack = advanced]
          ELSE LET left == [v EXCEPT
                               !.stack = below,
                               !.current_depth = IF top.kind = "array" THEN @ - 1 ELSE @]
                   specific == IF top.owner = 0
                               THEN [errors |-> <<>>, warnings |-> <<>>, raised |-> FALSE]
                               ELSE ValidateNodeSpecificErrors(
                                        v.document, v.document.nodes[top.owner], top.path)
               IN validator' =
                     IF specific.raised THEN ValidationReturns(left, TRUE)
                     ELSE IF below = <<>> THEN ValidationReturns(Added(left, specific), FALSE)
                     ELSE Added(left, specific)
    /\ UNCHANGED <<server, sess, backup_documents, now, doc, derived, last, finder, cloned>>

NextValidate ==
    \/ ValidateDocumentCall
    \/ ValidateWithDetailsCall
    \/ ValidateNodeCall
    \/ ValidateStep

\* The walk runs in the caller's thread: a step that can be taken is taken.
SpecValidate == Init /\ [][NextValidate]_vars /\ WF_vars(ValidateStep)

------------------------------------------------------------------------------
(* SpecOps: _apply_operation called directly on a document, clone(), and   *)
(* _apply_operation on the document and on its clone after that.           *)

MaxOpsCalls == 4

\* A paragraph of three text nodes, the first two holding an "a".
Doc7 ==
    << Para(<< Text(ta, <<>>), Text(<<"a", "b">>, <<Mark("em")>>), Text(tb, <<>>) >>) >>

OpsDocs == {Doc1, Doc2, Doc6, Doc7}

\* The operations of the direct calls.
WriterOperations ==
    { Op("delete", TextCrit(ta), None, <<>>, <<>>),
      Op("delete", TypeCrit("text"), None, <<>>, <<>>),
      Op("delete", TypeCrit("paragraph"), None, <<>>, <<>>),
      UpdateText(TextCrit(ta), tx),
      Op("modify", TypeCrit("heading"), None, <<>>,
         << [key |-> "attrs", text |-> <<>>, attrs |-> {<<"level", "2">>}] >>),
      Op("insert_after", TextCrit(tb), Text(tx, <<>>), <<>>, <<>>),
      Op("replace", TextCrit(tb), Text(tx, <<>>), <<>>, <<>>) }

\* What _apply_operation leaves of the derived data `data` of the document,
\* r being its outcome on the content: the path mutators behind replace,
\* insert and delete refresh _raw_data and the element map when they
\* succeed; update_text and modify set fields of the node and leave both as
\* they are.
WithDerived(r, data, operation) ==
    [success |-> r.success,
     content |-> r.content,
     derived |-> IF /\ r.success
                    /\ operation.operation_type \in
                          {"replace", "insert_before", "insert_after", "delete"}
                 THEN Refreshed(r.content)
                 ELSE data]

\* writer._apply_operation(adf_document, operation) on a document with the
\* derived data `data`: [success, content, derived].
ApplyOperationOn(content, data, operation) ==
    WithDerived(ApplyOperation(content, operation), data, operation)

\* ADFDocument.clone(): ADFDocument(copy.deepcopy(self._raw_data))
Clone(data) ==
    [made |-> TRUE,
     content |-> ParseDocument(data.raw_data),
     derived |-> [raw_data |-> data.raw_data,
                  element_map |-> ElementMap(ParseDocument(data.raw_data))]]

\* ADFDocument(data), the document the operations are applied to
NewWriterDocument ==
    /\ last.calls < MaxOpsCalls
    /\ ~cloned.made
    /\ \E d \in OpsDocs :
          /\ doc' = ParseDocument(RawDoc(d))
          /\ derived' = [raw_data |-> RawDoc(d),
                         element_map |-> ElementMap(ParseDocument(RawDoc(d)))]
          /\ last' = [NoDirectCall EXCEPT !.method = "ADFDocument", !.before = doc,
                                          !.derived_before = derived,
                                          !.calls = last.calls + 1]
    /\ UNCHANGED <<server, sess, backup_documents, now, finder, validator, cloned>>

\* writer._apply_operation(document, operation)
ApplyOperationCall ==
    /\ last.calls < MaxOpsCalls
    /\ \E operation \in WriterOperations :
          \E r \in {ApplyOperationOn(doc, derived, operation)} :
          /\ doc' = r.content
          /\ derived' = r.derived
          /\ last' = [NoDirectCall EXCEPT
                         !.method = "apply_operation", !.operation = operation,
                         !.returned = IF r.success THEN "True" ELSE "False",
                         !.before = doc, !.derived_before = derived,
                         !.calls = last.calls + 1]
    /\ UNCHANGED <<server, sess, backup_documents, now, finder, validator, cloned>>

\* document.clone()
CloneCall ==
    /\ last.calls < MaxOpsCalls
    /\ ~cloned.made
    /\ cloned' = Clone(derived)
    /\ last' = [NoDirectCall EXCEPT
                   !.method = "clone", !.returned = "ADFDocument",
                   !.before = doc, !.derived_before = derived,
                   !.calls = last.calls + 1]
    /\ UNCHANGED <<server, sess, backup_documents, now, doc, derived, finder, validator>>

\* writer._apply_operation(clone, operation)
ApplyOperationToClone ==
    /\ last.calls < MaxOpsCalls
    /\ cloned.made
    /\ \E operation \in WriterOperations :
          \E r \in {ApplyOperationOn(cloned.content, cloned.derived, operation)} :
          /\ cloned' = [made |-> TRUE, content |-> r.content, derived |-> r.derived]
          /\ last' = [NoDirectCall EXCEPT
                         !.method = "clone.apply_operation", !.operation = operation,
                         !.returned = IF r.success THEN "True" ELSE "False",
                         !.before = cloned.content,
                         !.derived_before = cloned.derived,
                         !.calls = last.calls + 1]
    /\ UNCHANGED <<server, sess, backup_documents, now, doc, derived, finder, validator>>

NextOps ==
    \/ NewWriterDocument
    \/ ApplyOperationCall
    \/ CloneCall
    \/ ApplyOperationToClone

SpecOps == Init /\ [][NextOps]_vars

------------------------------------------------------------------------------
(* Properties of update_page_preserving_formatting.                        *)

\* The arguments pass the checks before the retry loop.
ValidArguments(session) ==
    /\ session.page_id \notin {"", "None", "int"}
    /\ session.operations # <<>>
    /\ session.has_client
    /\ \A k \in 1..Len(session.operations) :
          session.operations[k].operation_type \in
              {"replace", "modify", "insert_before", "insert_after", "delete", "update_text"}

CallsOf(session, call) == {k \in 1..Len(session.calls) : session.calls[k].call = call}

\* Every fetch so far came back and every write-back so far was answered
\* with a version conflict.
AlwaysConflicts(session) ==
    \A k \in 1..Len(session.calls) :
        IF session.calls[k].call = "get" THEN session.calls[k].exc = NoExc
        ELSE session.calls[k].exc = ConflictError

\* C1: with automatic retry on and max_retries = N >= 0, a session whose
\* every write-back is answered with a version conflict never fetches or
\* writes back more than N + 1 times and never returns; when it ends it has
\* fetched N + 1 times and written back N + 1 times, and it ends with a
\* RuntimeError whose message names N retries.
C1_RetryBudget ==
    \A s \in Sessions :
        LET session == sess[s]
            N == session.max_retries
            gets == Cardinality(CallsOf(session, "get"))
            updates == Cardinality(CallsOf(session, "update"))
        IN (/\ session.pc # "idle"
            /\ ValidArguments(session)
            /\ session.auto_retry_on_conflict
            /\ N >= 0
            /\ AlwaysConflicts(session))
           => /\ gets <= N + 1
              /\ updates <= N + 1
              /\ session.result.kind # "return"
              /\ session.pc = "done"
                 => /\ gets = N + 1
                    /\ updates = N + 1
                    /\ session.result.kind = "raise"
                    /\ session.result.exc.cls = "RuntimeError"
                    /\ session.result.exc.msg = "Page update failed after n retries"
                    /\ session.result.exc.n = N

\* A session with max_retries >= 1 has used up its retries on conflicts.
C1_Witness ==
    \E s \in Sessions :
        /\ sess[s].pc = "done"
        /\ sess[s].auto_retry_on_conflict
        /\ sess[s].max_retries >= 1
        /\ AlwaysConflicts(sess[s])
        /\ Cardinality(CallsOf(sess[s], "update")) = sess[s].max_retries + 1
        /\ sess[s].result.exc.n = sess[s].max_retries

RECURSIVE ApplyAll(_, _)
ApplyAll(content, operations) ==
    IF operations = <<>> THEN content
    ELSE ApplyAll(ApplyOperation(content, Head(operations)).content, Tail(operations))

\* C2: every write-back directly follows a fetch that came back, carries the
\* version number of that fetch as the expected version, and carries as body
\* the operations applied to the document parsed from that fetch.
C2_AttemptsStartFromTheirOwnFetch ==
    \A s \in Sessions :
        \A k \in CallsOf(sess[s], "update") :
            /\ k > 1
            /\ sess[s].calls[k - 1].call = "get"
            /\ sess[s].calls[k - 1].exc = NoExc
            /\ sess[s].calls[k].version = sess[s].calls[k - 1].version
            /\ sess[s].calls[k].body =
                   ToDict(ApplyAll(ParseDocument(sess[s].calls[k - 1].body),
                                   sess[s].operations))

\* Two attempts of one session wrote back against different versions, with
\* different bodies.
C2_Witness ==
    \E s \in Sessions :
        \E j, k \in CallsOf(sess[s], "update") :
            /\ j < k
            /\ sess[s].calls[j].version # sess[s].calls[k].version
            /\ sess[s].calls[j].body # sess[s].calls[k].body

\* C3: when validation before update is on and the document after the
\* operations is invalid, the attempt makes no write-back and the session
\* ends with ValueError "Invalid ADF structure after operations".
C3_InvalidDocumentIsNotWritten ==
    \A s \in Sessions :
        (sess[s].validate_before_update /\ sess[s].validation_result = "False")
        => /\ sess[s].pc = "done"
           /\ sess[s].result = Raised(Exc("ValueError", "Invalid ADF structure after operations"))
           /\ sess[s].calls[Len(sess[s].calls)].call = "get"

\* C5: an authentication failure of a fetch or a write-back is the last call
\* of the session, and the session ends with that very exception.
C5_AuthenticationFailurePropagates ==
    \A s \in Sessions :
        \A k \in 1..Len(sess[s].calls) :
            sess[s].calls[k].exc.cls = "MCPAtlassianAuthenticationError"
            => /\ k = Len(sess[s].calls)
               /\ sess[s].pc = "done"
               /\ sess[s].result = Raised(sess[s].calls[k].exc)

\* C7: a call with a missing, empty or non-string page id, with no
\* operations, with no client or with an operation of unknown type ends with
\* a ValueError without a single call of the client.
C7_CallerErrors ==
    \A s \in Sessions :
        (sess[s].pc # "idle" /\ ~ValidArguments(sess[s]))
        => /\ sess[s].pc = "done"
           /\ sess[s].result.kind = "raise"
           /\ sess[s].result.exc.cls = "ValueError"
           /\ sess[s].calls = <<>>
           /\ server.writes[Version].by # s

\* A call with a good page id, a client and an operation of unknown type was
\* rejected.
C7_Witness ==
    \E s \in Sessions :
        /\ sess[s].pc = "done"
        /\ sess[s].page_id = "123456"
        /\ sess[s].has_client
        /\ sess[s].result.exc = Exc("ValueError", "Unknown operation type")
        /\ sess[s].calls = <<>>

\* The paths of the nodes of a document the criteria select; a criteria
\* without a key is no search and selects none.
Targets(content, criteria) ==
    LET walk == WalkFrom(content, <<>>, 1) IN
    IF criteria.keys = {} THEN {}
    ELSE {walk[i] : i \in {j \in 1..Len(walk) :
                             NodeSelected(GetNodeByPath(content, walk[j]), criteria)}}

TextTargets(content, criteria) ==
    {path \in Targets(content, criteria) : GetNodeByPath(content, path).type = "text"}

C9_OperationsSeeEarlierEffects ==
    \A s \in Sessions :
        LET session == sess[s]
            applied == session.applied_operations
        IN session.pc \in {"apply", "validate", "write"}
           => /\ Len(session.trail) = Len(applied) + 1
              /\ session.i = Len(applied) + 1
              /\ session.trail[1] = ParseDocument(session.current_page.body)
              /\ session.trail[Len(session.trail)] = session.adf_document
              /\ \A k \in 1..Len(applied) :
                    LET operation == session.operations[k] IN
                    /\ applied[k].index = k - 1
                    /\ session.trail[k + 1] =
                           ApplyOperation(session.trail[k], operation).content
                    /\ operation.operation_type = "update_text"
                       => (applied[k].success <=>
                             TextTargets(session.trail[k], operation.target_criteria) # {})

\* One operation succeeded on text that only an earlier operation created,
\* and a later one found nothing because an earlier one had rewritten the
\* text it looks for.
C9_Witness ==
    \E s \in Sessions :
        LET session == sess[s]
            applied == session.applied_operations
        IN /\ session.pc = "validate"
           /\ \E j, k \in 1..Len(applied) :
                 /\ 1 < j /\ j < k
                 /\ applied[j].success
                 /\ TextTargets(session.trail[1], session.operations[j].target_criteria) = {}
                 /\ ~applied[k].success
                 /\ applied[k].reason = "No matching elements found"
                 /\ TextTargets(session.trail[1], session.operations[k].target_criteria) # {}

\* C4: every page version a session wrote was sent as that session's
\* operations applied to the page version it replaced.
C4_NoLostUpdate ==
    \A v \in 2..Version :
        server.writes[v].by \in Sessions
        => server.writes[v].sent =
               ToDict(ApplyAll(ParseDocument(server.pages[v - 1]),
                               sess[server.writes[v].by].operations))

\* C6: update_page_adf raises the conflict ValueError for a 409 and
\* MCPAtlassianAuthenticationError for a 401 or a 403, and writes nothing
\* through the storage format in either case.
C6_ConflictAndAuthSurface ==
    \A s \in Sessions :
        \A k \in CallsOf(sess[s], "update") :
            LET call == sess[s].calls[k] IN
            /\ call.status_code = 409
               => call.exc = ConflictError /\ call.via # "storage"
            /\ call.status_code \in {401, 403}
               => call.exc.cls = "MCPAtlassianAuthenticationError" /\ call.via # "storage"

\* The shallow fields of a node: all but its children.
Shallow(node) ==
    [type |-> node.type, text |-> node.text, marks |-> node.marks, attrs |-> node.attrs,
     children |-> Len(node.content)]

PathsOf(content) == LET walk == WalkFrom(content, <<>>, 1) IN {walk[i] : i \in 1..Len(walk)}

C11_ReplaceMergePolicy ==
    (last.method = "replace" /\ last.count = 1)
    => LET original == GetNodeByPath(last.before, last.path)
           new == last.operation.new_content
           result == GetNodeByPath(doc, last.path)
           NewTypes == {new.marks[i].type : i \in 1..Len(new.marks)}
           Carried(mark) == mark.type \notin NewTypes
       IN /\ result.type = new.type
          /\ result.text = new.text
          /\ result.content = new.content
          /\ IF last.operation.preserve_attributes
             THEN /\ AttrKeys(result.attrs) = AttrKeys(original.attrs) \cup AttrKeys(new.attrs)
                  /\ \A key \in AttrKeys(new.attrs) :
                         AttrGet(result.attrs, key) = AttrGet(new.attrs, key)
                  /\ \A key \in AttrKeys(original.attrs) \ AttrKeys(new.attrs) :
                         AttrGet(result.attrs, key) = AttrGet(original.attrs, key)
             ELSE result.attrs = new.attrs
          /\ IF last.operation.preserve_marks /\ new.type = "text"
             THEN /\ result.marks = new.marks \o SelectSeq(original.marks, Carried)
                  /\ \A i, j \in 1..Len(result.marks) :
                         i # j => result.marks[i].type # result.marks[j].type
             ELSE result.marks = new.marks

\* C12: insert_before and insert_after on any target below the document
\* root, a top-level node included, succeed and put the new node into the
\* array that holds the target, at the target's index for insert_before and
\* one past it for insert_after, the other children in their order.
C12_InsertAcceptsEveryNonRootTarget ==
    (last.method \in {"insert_before", "insert_after"})
    => LET parent_path == ParentPath(last.path)
           siblings == GetParentAtPath(last.before, parent_path).list
           at == IF last.method = "insert_before"
                 THEN LastIndex(last.path) ELSE LastIndex(last.path) + 1
       IN /\ last.count = 1
          /\ GetParentAtPath(doc, parent_path).list =
                 InsertInto(siblings, at, last.operation.new_content)

------------------------------------------------------------------------------
(* Properties of the document's path-addressed methods.                    *)

\* The path resolves: every index is below the length of the child list it
\* selects from.
RECURSIVE Resolves(_, _)
Resolves(content, path) ==
    /\ path # <<>>
    /\ path[1] < Len(content)
    /\ Len(path) > 1 => Resolves(content[path[1] + 1].content, Tail(path))

\* The path leads to the node at prefix or into its subtree.
AtOrBelow(path, prefix) ==
    Len(prefix) <= Len(path) /\ SubSeq(path, 1, Len(prefix)) = prefix

\* C13: get_node_at, replace_node_at and delete_node_at do not raise on a
\* path that is empty or out of range at some hop: get_node_at returns None,
\* replace and delete return false with the tree, the path index and the
\* raw snapshot as before.  On a path that resolves replace (of a node of a
\* known type) and delete return true and change the addressed position
\* only.
C13_PathErrors ==
    (last.method \in {"get_node_at", "replace_node_at", "delete_node_at"})
    => IF ~Resolves(last.before, last.path)
       THEN /\ last.returned = (IF last.method = "get_node_at" THEN "None" ELSE "False")
            /\ doc = last.before
            /\ derived = last.derived_before
       ELSE LET siblings == GetParentAtPath(last.before, ParentPath(last.path)).list
                after == GetParentAtPath(doc, ParentPath(last.path)).list
                at == LastIndex(last.path) + 1
            IN CASE last.method = "get_node_at" ->
                      /\ last.returned = "node"
                      /\ doc = last.before
                 [] last.method = "replace_node_at" /\ ModelValidates(last.node) ->
                      /\ last.returned = "True"
                      /\ after = [siblings EXCEPT ![at] = last.node]
                      /\ \A path \in PathsOf(last.before) :
                             ~AtOrBelow(path, last.path)
                             => Shallow(GetNodeByPath(doc, path)) =
                                    Shallow(GetNodeByPath(last.before, path))
                 [] last.method = "delete_node_at" ->
                      /\ last.returned = "True"
                      /\ after = RemoveFrom(siblings, at - 1)
                      /\ \A path \in PathsOf(last.before) :
                             ~AtOrBelow(path, ParentPath(last.path))
                             => Shallow(GetNodeByPath(doc, path)) =
                                    Shallow(GetNodeByPath(last.before, path))
                 [] OTHER -> TRUE

\* C14: insert_node_at on a parent path that resolves to a node with a child
\* list (or on the empty path, the document's own list) succeeds for every
\* index: the list grows by one, the new node (of a known type) sits at
\* min(max(index, 0), old length), and the former children keep their
\* order around it.
C14_InsertClamps ==
    (/\ last.method = "insert_node_at"
     /\ ModelValidates(last.node)
     /\ \/ last.path = <<>>
        \/ /\ Resolves(last.before, last.path)
           /\ GetNodeByPath(last.before, last.path).content_field # "null")
    => LET siblings == IF last.path = <<>> THEN last.before
                       ELSE GetNodeByPath(last.before, last.path).content
           after == IF last.path = <<>> THEN doc
                    ELSE GetNodeByPath(doc, last.path).content
           at == Min(Max(last.index, 0), Len(siblings))
       IN /\ last.returned = "True"
          /\ Len(after) = Len(siblings) + 1
          /\ after[at + 1] = last.node
          /\ RemoveFrom(after, at) = siblings

\* Index 999 into a list of two children appended the node at index 2.
C14_Witness ==
    /\ last.method = "insert_node_at"
    /\ last.index = 999
    /\ last.path # <<>>
    /\ Resolves(last.before, last.path)
    /\ Len(GetNodeByPath(last.before, last.path).content) = 2
    /\ Len(GetNodeByPath(doc, last.path).content) = 3
    /\ GetNodeByPath(doc, last.path).content[3] = last.node

\* C15: whatever sequence of replace, insert, delete, add_paragraph and
\* clear a parsed document went through, parsing its to_dict() and taking
\* to_dict() of that gives its to_dict() again.
C15_RoundTrip ==
    ToDict(ParseDocument(ToDict(doc))) = ToDict(doc)

\* A mutation went through and to_dict() is not a copy of the live tree: a
\* child was put into the list of a node whose content field is unset.
C15_Witness ==
    /\ last.method \in {"replace_node_at", "insert_node_at", "delete_node_at", "add_paragraph"}
    /\ last.returned = "True"
    /\ doc # last.before
    /\ ToDict(doc).content # <<>>
    /\ ToDict(doc).content # doc

\* C16: a document constructed from raw input that fails to parse is the
\* empty document: no content, to_dict() equal to the empty document, and
\* validate(), which validates the raw snapshot, reporting valid.
C16_UnparseableInputGivesEmptyValidDocument ==
    (last.method = "ADFDocument" /\ derived.raw_data \in UnparseableInputs)
    => /\ doc = <<>>
       /\ ToDict(doc) = EMPTY_ADF_DOCUMENT
       /\ derived.element_map = {}
       /\ ValidateDocument(derived.raw_data)

------------------------------------------------------------------------------
(* Properties of the finder.                                               *)

\* The criteria of the last search.
Searched == last.operation.target_criteria

\* The keys of the prioritized strategies, first to last.
Priority == <<"json_path", "text", "node_type", "attributes", "marks", "index">>

\* The numeral of a one-digit index.
DigitOf(i) == CASE i = 0 -> "0" [] i = 1 -> "1" [] OTHER -> "9"

\* C18: a search by json_path "$.content[i]" or "$.content[i].content[j]"
\* gives one result, the node at [i] (at [i, j]) with that path, when the
\* document has that node, and none when it has not.
C18_JsonPathResolvesIndexPaths ==
    (/\ last.method = "find_elements"
     /\ Searched.keys = {"json_path"}
     /\ Searched.json_path # <<>>
     /\ last.index = 0)
    => LET Expect(path) ==
               IF Resolves(last.before, path)
               THEN /\ Len(last.results) = 1
                    /\ last.results[1].path = path
                    /\ last.results[1].node = GetNodeByPath(last.before, path)
               ELSE last.results = <<>>
       IN /\ last.returned = "list"
          /\ Len(last.results) <= 1
          /\ \A i \in {0, 1, 9} :
                Searched.json_path = <<"$", ".", "content", "[", DigitOf(i), "]">>
                => Expect(<<i>>)
          /\ \A i, j \in {0, 1, 9} :
                Searched.json_path = <<"$", ".", "content", "[", DigitOf(i), "]",
                                       ".", "content", "[", DigitOf(j), "]">>
                => Expect(<<i, j>>)

\* The first of the given keys in the order of priority.
First(keys) ==
    LET i == CHOOSE i \in 1..Len(Priority) :
                 /\ Priority[i] \in keys
                 /\ \A j \in 1..(i - 1) : Priority[j] \notin keys
    IN Priority[i]

\* What the search of the last call gives for the criteria cut down to one
\* of its keys.
ResultsOfKeyAlone(key) ==
    Truncated(FindElements(last.before, [Searched EXCEPT !.keys = {key}]).results,
              last.index)

\* The keys of the criteria that hold a value that selects their strategy:
\* a non-empty one, and for index any value but None.
Selecting(criteria) ==
    {key \in criteria.keys \cap {"json_path", "attributes", "marks", "index"} :
        Truthy(criteria, key)}
    \cup (IF HasText(criteria) THEN {"text"} ELSE {})
    \cup (IF HasNodeType(criteria) THEN {"node_type"} ELSE {})

\* C17 as stated: a search whose criteria holds some of the keys json_path,
\* text, node_type, attributes, marks and index gives what the search for
\* the first of the keys it holds, in that order, gives alone.
C17_HighestSuppliedKeyAlone ==
    (/\ last.method = "find_elements"
     /\ Searched.keys # {}
     /\ Searched.keys \subseteq {Priority[i] : i \in 1..Len(Priority)})
    => last.results = ResultsOfKeyAlone(First(Searched.keys))

\* C17, amended: the search gives what the search for the first key that
\* holds a selecting value gives alone; the keys below it, and the keys
\* with an empty value, are not consulted.
C17_HighestSelectingKeyAlone ==
    (/\ last.method = "find_elements"
     /\ Selecting(Searched) # {})
    => last.results = ResultsOfKeyAlone(First(Selecting(Searched)))

\* A search with a text and a node_type that select: it gave the nodes the
\* text gives, which are not those the node_type gives.
C17_Witness ==
    /\ last.method = "find_elements"
    /\ {"text", "node_type"} \subseteq Selecting(Searched)
    /\ "json_path" \notin Searched.keys
    /\ last.results # <<>>
    /\ last.results = ResultsOfKeyAlone("text")
    /\ last.results # ResultsOfKeyAlone("node_type")
    /\ ResultsOfKeyAlone("node_type") # <<>>

\* C19: a search with a non-empty criteria whose one value is of the wrong
\* type (text None, node_type a number, attributes a string, marks a
\* string), or whose one key is none the finder knows, does not raise and
\* gives no result.
C19_MalformedCriteriaMatchNothing ==
    (/\ last.method = "find_elements"
     /\ \/ Searched.keys = {"invalid_key"}
        \/ \E key \in {"text", "node_type", "attributes", "marks"} :
              Searched.keys = {key} /\ Searched.mistyped = {key})
    => /\ last.returned = "list"
       /\ last.results = <<>>

\* The sort key of a result: its depth, and whether it lacks a text.
Depth(result) == Len(result.path)

\* Where the walk over the document meets the path.
PositionInWalk(content, path) ==
    LET walk == WalkFrom(content, <<>>, 1) IN
    CHOOSE i \in 1..Len(walk) : walk[i] = path

\* C20: the results come by depth, within a depth those with a text before
\* those without, and within that in the order of the walk over the
\* document; under a limit L > 0 they are the first min(L, n) of the n
\* results that the search gives without a limit.
C20_SortedThenTruncated ==
    (last.method = "find_elements" /\ last.returned = "list")
    => LET all == FindElements(last.before, Searched).results
           n == Len(all)
       IN /\ \A i, j \in 1..n :
                i < j =>
                   \/ Depth(all[i]) < Depth(all[j])
                   \/ /\ Depth(all[i]) = Depth(all[j])
                      /\ all[i].text_content # <<>>
                      /\ all[j].text_content = <<>>
                   \/ /\ Depth(all[i]) = Depth(all[j])
                      /\ (all[i].text_content = <<>>) = (all[j].text_content = <<>>)
                      /\ PositionInWalk(last.before, all[i].path)
                            < PositionInWalk(last.before, all[j].path)
          /\ last.index = 0 => last.results = all
          /\ last.index > 0 =>
                /\ Len(last.results) = Min(last.index, n)
                /\ \A i \in 1..Len(last.results) : last.results[i] = all[i]

\* A limit cut the results of a search whose sorted order is not the order
\* of the walk: a node with a text came before an earlier sibling without.
C20_Witness ==
    /\ last.method = "find_elements"
    /\ last.index > 0
    /\ Len(FindElements(last.before, Searched).results) > last.index
    /\ Len(last.results) = last.index
    /\ \E i, j \in 1..Len(FindElements(last.before, Searched).results) :
          LET all == FindElements(last.before, Searched).results IN
          /\ i < j
          /\ Depth(all[i]) = Depth(all[j])
          /\ PositionInWalk(last.before, all[i].path) > PositionInWalk(last.before, all[j].path)

------------------------------------------------------------------------------
(* Properties of the kept finder.                                          *)

\* What a search of the live tree gives under the limit of the last search.
LiveResults(content, criteria, limit) ==
    Truncated(FindElements(content, criteria).results, limit)

\* C21: the cache of a finder is keyed by criteria and limit and nothing
\* else.  A search with cache_results that finds its key in the cache
\* returns the stored result, whatever the document is by then, and leaves
\* the cache alone; one that does not find it returns the live result and
\* stores it; a search without cache_results returns the live result and
\* leaves the cache alone; clear_cache empties the cache, and no other step
\* removes or changes an entry.
C21_CacheKeyedByCriteriaAndLimit ==
    [][ LET before == finder.search_cache
            after == finder'.search_cache
            criteria == last'.operation.target_criteria
            limit == last'.index
            key == GenerateCacheKey(criteria, limit)
            live == LiveResults(doc, criteria, limit)
        IN /\ (last'.method = "finder.find_elements" /\ last'.returned = "list") =>
                 /\ (last'.cache_results /\ key \in DOMAIN before) =>
                        /\ last'.results = before[key]
                        /\ after = before
                 /\ (last'.cache_results /\ key \notin DOMAIN before) =>
                        /\ last'.results = live
                        /\ DOMAIN after = DOMAIN before \cup {key}
                        /\ after[key] = live
                 /\ ~last'.cache_results =>
                        /\ last'.results = live
                        /\ after = before
           /\ last'.method = "clear_cache" => DOMAIN after = {}
           /\ last'.method # "clear_cache" =>
                 \A k \in DOMAIN before : k \in DOMAIN after /\ after[k] = before[k]
      ]_vars

------------------------------------------------------------------------------
(* Properties of the validator.                                            *)

\* A validation of a document has returned.
DocumentValidated ==
    /\ validator.returned # ""
    /\ validator.call \in {"validate_document", "validate_with_details"}

\* C22: a validation of a document reports valid exactly when the list of
\* errors it produced is empty, whatever warnings it produced; the
\* ValidationResult of validate_with_details holds that verdict and the
\* two lists.
C22_ValidIffNoErrors ==
    DocumentValidated =>
       /\ (validator.returned = "True") <=> (validator.errors = <<>>)
       /\ \A i \in 1..Len(validator.errors) : validator.errors[i].severity = "error"
       /\ \A i \in 1..Len(validator.warnings) : validator.warnings[i].severity = "warning"
       /\ validator.call = "validate_with_details" =>
             /\ validator.result.given
             /\ validator.result.is_valid <=> (validator.result.errors = <<>>)
             /\ validator.result.is_valid <=> (validator.returned = "True")
             /\ validator.result.errors = validator.errors
             /\ validator.result.warnings = validator.warnings

\* A document found valid with a warning, then one found invalid with an
\* error and a warning.
C22_Witness ==
    /\ DocumentValidated
    /\ validator.call = "validate_with_details"
    /\ validator.held.given
    /\ validator.held.is_valid /\ validator.held.warnings # <<>>
    /\ ~validator.result.is_valid /\ validator.result.warnings # <<>>

\* The nesting depth of a dict document, root to leaf: the number of nodes
\* on its longest path from a top-level node down to a node without
\* children, counted up to a depth that no input without a cycle reaches.
NestingDepth(document) ==
    LET Children(id) ==
            IF "content" \in document.nodes[id].has \ document.nodes[id].null
            THEN document.nodes[id].content ELSE <<>>
        RECURSIVE DepthBelow(_, _)
        DepthBelow(id, depth) ==
            IF Children(id) = <<>> \/ depth >= MAX_DEPTH + Len(document.nodes) + 1
            THEN depth
            ELSE LET below == {DepthBelow(Children(id)[i], depth + 1) :
                                  i \in 1..Len(Children(id))}
                 IN CHOOSE d \in below : \A e \in below : e <= d
        tops == {DepthBelow(document.content[i], 1) : i \in 1..Len(document.content)}
    IN IF document.content_field # "list" \/ tops = {} THEN 0
       ELSE CHOOSE d \in tops : \A e \in tops : e <= d

\* The errors of the walk that say the depth was exceeded.
MaxDepthErrors ==
    {i \in 1..Len(validator.errors) : validator.errors[i].message = "max_depth_exceeded"}

\* C23: the limit of 20 is enforced exactly.  A document nested at most 20
\* deep gets no max-depth error; a document nested 21 deep or more gets it
\* and is invalid; and the walk does not go below the node it emits the
\* error at: no loop over a content runs below it and there is no error or
\* warning about a node below it.
C23_DepthLimitExact ==
    /\ Len(validator.stack) <= MAX_DEPTH + 2
    /\ DocumentValidated =>
          /\ NestingDepth(validator.document) <= MAX_DEPTH => MaxDepthErrors = {}
          /\ NestingDepth(validator.document) > MAX_DEPTH =>
                /\ MaxDepthErrors # {}
                /\ validator.returned = "False"
          /\ \A i \in 1..Len(validator.errors) :
                Len(validator.errors[i].path) <= MAX_DEPTH + 1
          /\ \A i \in 1..Len(validator.warnings) :
                Len(validator.warnings[i].path) <= MAX_DEPTH + 1

\* A node of the dict can be reached from itself: the walk from the top
\* gets deeper than the dict has nodes.
HoldsItself(document) == NestingDepth(document) > Len(document.nodes)

\* C26: every validation returns.  The walk never has more loops running
\* than the limit allows, and the validation of a document in which a node
\* holds itself ends with the max-depth error and the verdict invalid.
C26_ValidationTerminates ==
    /\ (validator.stack # <<>>) ~> (validator.stack = <<>> /\ validator.returned # "")
    /\ [](Len(validator.stack) <= MAX_DEPTH + 2)
    /\ []((DocumentValidated /\ HoldsItself(validator.document)) =>
             /\ validator.returned = "False"
             /\ MaxDepthErrors # {})

\* The validation of a document in which a node holds itself has returned.
C26_Witness ==
    /\ DocumentValidated
    /\ HoldsItself(validator.document)
    /\ validator.returned = "False"
    /\ \E i \in MaxDepthErrors : Len(validator.errors[i].path) = MAX_DEPTH + 1

\* C28: the state of a validator resets between validations.  The walk of
\* every call, which is a function of its input and of the errors, the
\* warnings and the depth it starts from, starts from those of a new
\* validator; and a ValidationResult that validate_with_details returned
\* is the same after the calls that follow.
C28_ValidationStateResets ==
    [][ /\ validator'.calls = validator.calls + 1 =>
              validator'.start = NewValidator.start
        /\ (validator.held.given /\ validator'.calls = validator.calls) =>
              validator'.held = validator.held
        /\ (validator.result.given /\ validator'.calls = validator.calls + 1) =>
              validator'.held = validator.result
      ]_vars

------------------------------------------------------------------------------
(* The backups of the writer. *)

\* C24: the backup of a write attempt is held only for that attempt: once
\* update_page_preserving_formatting has returned success with create_backup
\* on, backup_documents of the writer holds no backup under the backup_id of
\* the result.
C24_BackupDiscardedOnSuccess ==
    \A s \in Sessions :
        (/\ sess[s].pc = "done"
         /\ sess[s].create_backup
         /\ sess[s].result.kind = "return"
         /\ sess[s].result.ret.success)
        => \A b \in backup_documents[s] : b.id # sess[s].result.ret.backup_id

------------------------------------------------------------------------------
(* The derived data of the document. *)

\* C25: after a replace_node_at, insert_node_at or delete_node_at call,
\* whatever it gave back and whatever calls came before it, the path index
\* holds one entry per node of the tree with its path, type and text, and
\* the raw-dict snapshot equals to_dict().
C25_DerivedDataAgreeWithTree ==
    last.method \in {"replace_node_at", "insert_node_at", "delete_node_at"}
    => /\ derived.element_map = ElementMap(doc)
       /\ derived.raw_data = ToDict(doc)

------------------------------------------------------------------------------
(* The search of the document and the search of the finder. *)

Paths(results) == {results[i].path : i \in 1..Len(results)}

\* C27: for a criteria that ADFDocument.find_elements and
\* ADFFinder.find_elements both accept, the two match the same set of node
\* paths of the document, and the parent of every result is the node at
\* the result's path[:-1].
C27_DocumentFindIsFinderFind ==
    LET criteria == last.operation.target_criteria
        found == FindElements(doc, criteria)
    IN (last.method = "document.find_elements" /\ last.returned = "list" /\ ~found.raised)
       => /\ Paths(last.results) = Paths(found.results)
          /\ \A i \in 1..Len(last.results) :
                last.results[i].parent
                    = GetNodeByPath(doc, ParentPath(last.results[i].path))
          /\ \A i \in 1..Len(found.results) :
                found.results[i].parent
                    = GetNodeByPath(doc, ParentPath(found.results[i].path))

------------------------------------------------------------------------------
(* Operations that match several elements, and the clone. *)

\* The nodes of `nodes`, found at `path`, without those whose path is among
\* `paths`, at every level.
RECURSIVE Without(_, _, _)
Without(nodes, path, paths) ==
    LET Kept(i) == Append(path, i - 1) \notin paths
        RECURSIVE From(_)
        From(i) ==
            IF i > Len(nodes) THEN <<>>
            ELSE IF Kept(i)
            THEN << [nodes[i] EXCEPT
                        !.content = Without(@, Append(path, i - 1), paths)] >>
                 \o From(i + 1)
            ELSE From(i + 1)
    IN From(1)

\* C29: a delete operation whose criteria match several elements removes
\* the elements that matched and no others, the rest staying in their
\* order, and a search with the same criteria on the document after it
\* finds nothing.
C29_DeleteRemovesExactlyTheMatches ==
    LET criteria == last.operation.target_criteria
        matched == FindElements(last.before, criteria).results
    IN (/\ last.method = "apply_operation"
        /\ last.operation.operation_type = "delete"
        /\ Len(matched) > 1)
       => /\ doc = Without(last.before, <<>>, Paths(matched))
          /\ FindElements(doc, criteria).results = <<>>

\* C30: after any operations of the writer on a document, update_text and
\* modify among them, clone() gives a document whose to_dict() equals the
\* document's, and an operation on one of the two leaves the other as it
\* was.
C30_CloneEqualAndIndependent ==
    /\ [](last.method = "clone" => ToDict(cloned.content) = ToDict(doc))
    /\ [][/\ (cloned.made /\ <<doc, derived>>' # <<doc, derived>>) => cloned' = cloned
          /\ (cloned.made /\ cloned' # cloned) => <<doc, derived>>' = <<doc, derived>>]_vars

==============================================================================
